---------------------------- MODULE Spec2Model ----------------------------
(***************************************************************************)
(* A model of brew.py (src/brew.py): the package store under               *)
(* $BREW_PY_CELLAR, its link manager, the dependency graph (TreeDict,      *)
(* DependencyTree), the uninstall planner (UninstallQueue), the install    *)
(* queue (InstallQueue), the archive extraction (TarPackage), the          *)
(* placeholders of text files (Fixer) and the commands cli_uninstall,      *)
(* cli_cleanup, cli_upgrade, cli_install, cli_link, cli_unlink,            *)
(* cli_switch and cli_toggle that drive them.                              *)
(*                                                                         *)
(* The store is the file system below the store root:                      *)
(*   versions[p]    the <ver> for which Cellar/<p>/<ver>/.brew is a dir    *)
(*   primary        the p for which Cellar/<p>/.primary exists             *)
(*   pinned         the p for which Cellar/<p>/.pinned exists              *)
(*   recipeDeps[p]  the dependencies RubyParser reads from p's recipes     *)
(*   binaries[p][v] the executables in Cellar/<p>/<v>/bin                  *)
(*   optLink[p]     the version opt/<p> points at, or None                 *)
(*   binLink[e]     the package bin/<e> points into (opt/<p>/bin/<e>)      *)
(*   cellarFiles    the paths below Cellar/: .brew, the recipe, the digest *)
(*                  and the executables of a version, and what archives    *)
(*                  put there                                              *)
(*   kegOnly        the p whose recipes say keg_only                       *)
(*   textFile       the text file of a version, by its bytes               *)
(*   recipe         the lines of the recipe RubyParser.parse reads         *)
(*   loop           depTree.reverse.direct and depsOnly of cli_cleanup     *)
(***************************************************************************)
EXTENDS Integers, Sequences, FiniteSets, TLC

VARIABLES
    \* the store
    versions, primary, pinned, recipeDeps, binaries, optLink, binLink, cellarFiles,
    \* the running command
    pc, exitCode,
    \* cli_uninstall and its UninstallQueue
    args, deletePkgs, warnings, skips, uninstallQueue, force, dryRun, step,
    linksBefore,
    \* the commands run so far on the links (history)
    hist,
    \* the manifests and bottles Brew.info and Brew.downloadBottle give, and the
    \* tar file on disk
    remote, tarFile,
    \* cli_install, cli_upgrade and their InstallQueue; Log.LEVEL, Log._SUMMARY
    iq, logLevel, summary,
    \* the packages whose archives were extracted, in order (history), and the
    \* versions and opt-links the command found (history)
    extracted, before,
    \* the packages whose recipes say keg_only, and the lines of the recipe
    \* that RubyParser.parse is given
    kegOnly, recipe,
    \* the calls made of TreeDict, DependencyTree and Fixer with what they
    \* returned (history), and the text file Fixer works on
    calls, textFile,
    \* the local variables of the loop of cli_cleanup that removes dangling
    \* dependencies: depTree.reverse.direct and depsOnly
    loop

storeVars == <<versions, primary, pinned, recipeDeps, binaries, optLink, binLink,
               cellarFiles>>
cmdVars == <<pc, exitCode>>
uninstallVars == <<args, deletePkgs, warnings, skips, uninstallQueue, force, dryRun, step,
                   linksBefore>>
linkVars == <<hist>>
installVars == <<remote, tarFile, iq, logLevel, summary, extracted, before>>
recipeVars == <<kegOnly, recipe>>
loopVars == <<loop>>
callVars == <<calls, textFile>>
vars == <<storeVars, cmdVars, uninstallVars, linkVars, installVars, recipeVars, loopVars, callVars>>

(***************************************************************************)
(* The universe of the model.                                              *)
(***************************************************************************)
Names == {"a", "b", "c", "d"}
Versions == {"1.0", "2.0"}
Exes == {"x", "y"}
None == "none"

\* sorted() on package names: the order of the strings
NameOrder == [n \in Names |->
                CASE n = "a" -> 1 [] n = "b" -> 2 [] n = "c" -> 3 [] n = "d" -> 4]

\* the largest delete list and the largest ignore list a command is given
MaxDelete == 2
MaxIgnore == 1

RECURSIVE sorted(_)
sorted(S) ==
    IF S = {} THEN <<>>
    ELSE LET m == CHOOSE x \in S : \A y \in S : NameOrder[x] <= NameOrder[y]
         IN  <<m>> \o sorted(S \ {m})

Range(s) == {s[i] : i \in 1..Len(s)}

(***************************************************************************)
(* TreeDict: `direct` is a function from its keys to sets of names.        *)
(***************************************************************************)
\* self.direct.get(key, set())
Get(direct, key) == IF key \in DOMAIN direct THEN direct[key] ELSE {}

inverse(direct) ==
    [k \in DOMAIN direct \cup UNION {direct[x] : x \in DOMAIN direct} |->
        {x \in DOMAIN direct : k \in direct[x]}]

\* What getAll's recursion yields when it comes back to a key that is still
\* being computed: the memo is assigned only after the recursive calls return,
\* so the recursion never ends and Python raises RecursionError.
RecursionError == "RecursionError"

\* (mutant) a key is counted among what it leads to
RECURSIVE getAllFromKey(_, _, _)
getAllFromKey(direct, key, stack) ==
    IF key \in stack THEN {RecursionError}
    ELSE {key} \cup UNION {{x} \cup getAllFromKey(direct, x, stack \cup {key}) :
                              x \in Get(direct, key)}

RECURSIVE getAllFrom(_, _, _)
getAllFrom(direct, key, stack) ==
    IF key \in stack THEN {RecursionError}
    ELSE UNION {{x} \cup getAllFrom(direct, x, stack \cup {key}) : x \in Get(direct, key)}

getAll(direct, key) == getAllFrom(direct, key, {})

\* (mutant) the values next to the key, dead ends or not
getLeavesDirect(direct, key) == Get(direct, key)

getLeaves(direct, key) == {x \in getAll(direct, key) : Get(direct, x) = {}}

\* (mutant) the input is never joined
unionAllValues(direct, keys, inclInput) == UNION {getAll(direct, key) : key \in keys}

unionAll(direct, keys, inclInput) ==
    UNION {getAll(direct, key) : key \in keys} \cup (IF inclInput THEN keys ELSE {})

filterDifference(direct, keys, other) == {key \in keys : Get(direct, key) \ other # {}}

\* (mutant) no key is found to have a value in `other`
filterIntersectionNone(direct, keys, other) == {}

filterIntersection(direct, keys, other) == {key \in keys : Get(direct, key) \cap other # {}}

missing(direct, keys) == {key \in keys : key \notin DOMAIN direct}

directEnd(direct) == {key \in DOMAIN direct : direct[key] = {}}

(***************************************************************************)
(* DependencyTree                                                          *)
(***************************************************************************)
obsolete(forward, reverse, ignore) ==
    IF ignore = {} THEN {}
    ELSE LET allIgnored == unionAll(forward, ignore, TRUE)
             children == allIgnored \ ignore
             multiParents == filterDifference(reverse, children, allIgnored)
         IN  allIgnored \ multiParents

(***************************************************************************)
(* The store, as LocalPackage and Cellar read it.                          *)
(***************************************************************************)
allVersions(pkg) == versions[pkg]

installed(pkg) == allVersions(pkg) # {}

infoAll == {pkg \in Names : installed(pkg)}

\* Cellar.getDependencyTree: forward.direct
getDependencyTree == [pkg \in infoAll |-> recipeDeps[pkg]]

isPrimary(pkg) == pkg \in primary

\* (mutant) setPrimary(False) removes the `.primary` file
setPrimaryRemove(prim, pkg, flag) == IF flag THEN prim \cup {pkg} ELSE prim \ {pkg}

\* setPrimary: the packages with a `.primary` file after File.touch(fname),
\* where fname is `.primary` if flag and `.secondary` otherwise
setPrimary(prim, pkg, flag) == IF flag THEN prim \cup {pkg} ELSE prim

\* the file Cellar/<pkg>/.secondary that setPrimary(False) touches
secondaryPath(pkg) == <<pkg, ".secondary">>

\* rubyPath: the recipe Cellar/<pkg>/<version>/.brew/<pkg>.rb, named here
\* without the package, which the path's first part gives
RecipeFile == "<pkg>.rb"

rubyPath(pkg, version) == <<pkg, version, ".brew", RecipeFile>>

\* setDigest: the file Cellar/<pkg>/<version>/.brew/digest
digestPath(pkg, version) == <<pkg, version, ".brew", "digest">>

\* the files of the installed versions vs with the executables bins
kegFiles(vs, bins) ==
    UNION {{<<pv[1], pv[2], ".brew">>, rubyPath(pv[1], pv[2]), digestPath(pv[1], pv[2])}
              \cup {<<pv[1], pv[2], "bin", e>> : e \in bins[pv[1]][pv[2]]} :
           pv \in {x \in Names \X Versions : x[2] \in vs[x[1]]}}

(***************************************************************************)
(* UninstallQueue.collect                                                  *)
(***************************************************************************)
getDeps(reverse, pkg, leaves) ==
    IF leaves THEN getLeaves(reverse, pkg) ELSE Get(reverse, pkg)

setWarnings(reverse, delete, hidden, leaves) ==
    [pkg \in {p \in delete : getDeps(reverse, p, leaves) \ hidden # {}} |->
        getDeps(reverse, pkg, leaves) \ hidden]

\* (mutant) the loop without `removed.difference_update(deps)`
RECURSIVE cascadeKeepsRemoved(_, _, _)
cascadeKeepsRemoved(reverse, removed, skipped) ==
    LET deps == filterIntersection(reverse, removed, skipped)
    IN  IF deps \subseteq skipped THEN [removed |-> removed, skipped |-> skipped]
        ELSE cascadeKeepsRemoved(reverse, removed, skipped \cup deps)

\* while deps := depTree.reverse.filterIntersection(removed, skipped): ...
RECURSIVE cascade(_, _, _)
cascade(reverse, removed, skipped) ==
    LET deps == filterIntersection(reverse, removed, skipped)
    IN  IF deps = {} THEN [removed |-> removed, skipped |-> skipped]
        ELSE cascade(reverse, removed \ deps, skipped \cup deps)

\* (mutant) the `.primary` marker is not consulted
primaryOfNothing(removed, delete) == {}

\* skip dependencies which were installed by user on request
primaryOf(removed, delete) == {x \in removed : isPrimary(x)} \ delete

collect(deleteArg, hiddenPkgs, leaves, ignoreDependencies) ==
    LET forward == getDependencyTree
        reverse == inverse(forward)
        \* for unknown in depTree.forward.missing(deletePkgs): deletePkgs.remove(unknown)
        deleteList == SelectSeq(deleteArg, LAMBDA x : x \in DOMAIN forward)
        delete == Range(deleteList)
        activelyIgnored == obsolete(forward, reverse, hiddenPkgs)
    IN  IF ignoreDependencies
        THEN [deletePkgs |-> deleteList,
              warnings |-> setWarnings(reverse, delete, activelyIgnored \cup delete, leaves),
              uninstallQueue |-> deleteList,
              skips |-> <<>>]
        ELSE LET rawUninstall == unionAll(forward, delete, TRUE)
                 hidden == activelyIgnored \cup rawUninstall
                 secondary == rawUninstall \ delete
                 skipped0 == filterDifference(reverse, secondary, hidden)
                 removed0 == rawUninstall \ skipped0
                 prim == primaryOf(removed0, delete)
                 fix == cascade(reverse, removed0 \ prim, skipped0 \cup prim)
                 removed == fix.removed \ missing(forward, fix.removed)
                 irrelevant == removed \cup hiddenPkgs
             IN  [deletePkgs |-> deleteList,
                  warnings |-> setWarnings(reverse, delete, hidden, leaves),
                  uninstallQueue |-> sorted(removed),
                  skips |-> [pkg \in fix.skipped |->
                                getDeps(reverse, pkg, leaves) \ irrelevant]]

(***************************************************************************)
(* LocalPackage and LocalPackageVersion: symlink processing.  A link is    *)
(* named by its path: <<"opt", pkg>> is opt/<pkg>, <<"bin", exe>> is       *)
(* bin/<exe>.  The operators take the links as a record ls:                *)
(* ls.opt is what optLink holds, ls.bin what binLink holds.                *)
(***************************************************************************)
links == [opt |-> optLink, bin |-> binLink]

\* activeVersion: the basename of the opt-link's target
activeVersion(pkg) == optLink[pkg]

\* (mutant) every version counts as inactive
inactiveVersionsAll(pkg) == allVersions(pkg)

inactiveVersions(pkg) == {x \in allVersions(pkg) : x # activeVersion(pkg)}

\* (mutant) the bin-links are not found
binLinksNone(ls, pkg) == {}

\* binLinks: the links in bin/ whose resolved target lies below Cellar/<pkg>/.
\* bin/<exe> -> ../opt/<pkg>/bin/<exe> resolves into the Cellar only through
\* an existing opt/<pkg>.
binLinks(ls, pkg) == IF ls.opt[pkg] = None THEN {} ELSE {e \in Exes : ls.bin[e] = pkg}

\* unlink: rv, the links it removes
unlinkPaths(ls, pkg, unlinkOpt, unlinkBin) ==
    (IF unlinkBin THEN {<<"bin", e>> : e \in binLinks(ls, pkg)} ELSE {})
    \cup (IF unlinkOpt /\ ls.opt[pkg] # None THEN {<<"opt", pkg>>} ELSE {})

\* unlink: the links after `os.remove(lnk.path)` for each of rv
unlink(ls, pkg, unlinkOpt, unlinkBin) ==
    LET rv == unlinkPaths(ls, pkg, unlinkOpt, unlinkBin)
    IN  [opt |-> [p \in Names |-> IF <<"opt", p>> \in rv THEN None ELSE ls.opt[p]],
         bin |-> [e \in Exes |-> IF <<"bin", e>> \in rv THEN None ELSE ls.bin[e]]]

\* os.path.islink(link.path) or os.path.exists(link.path)
linkExists(ls, path) ==
    IF path[1] = "opt" THEN ls.opt[path[2]] # None ELSE ls.bin[path[2]] # None

\* isKegOnly: RubyParser(self.rubyPath).parseKegOnly()
\* (mutant) no recipe says keg_only
isKegOnlyNever(pkg) == FALSE

isKegOnly(pkg) == pkg \in kegOnly

\* _gatherBinaries: the executables in Cellar/<pkg>/<version>/bin
gatherBinaries(pkg, version) == binaries[pkg][version]

\* link: its queue, opt/<pkg> and one bin/<exe> for each executable
linkQueue(pkg, version, linkOpt, linkBin) ==
    (IF linkOpt THEN {<<"opt", pkg>>} ELSE {})
    \cup (IF linkBin THEN {<<"bin", e>> : e \in gatherBinaries(pkg, version)} ELSE {})

\* link: the links after it; a destination that exists is skipped
link(ls, pkg, version, linkOpt, linkBin) ==
    LET made == {path \in linkQueue(pkg, version, linkOpt, linkBin) : ~linkExists(ls, path)}
    IN  [opt |-> [p \in Names |-> IF <<"opt", p>> \in made THEN version ELSE ls.opt[p]],
         bin |-> [e \in Exes |-> IF <<"bin", e>> \in made THEN pkg ELSE ls.bin[e]]]

(***************************************************************************)
(* cli_uninstall                                                           *)
(***************************************************************************)
\* args.packages: a list of different names
DeleteArgs ==
    {s \in UNION {[1..n -> Names] : n \in 1..MaxDelete} :
        \A i, j \in DOMAIN s : i # j => s[i] # s[j]}

IgnoreArgs == {H \in SUBSET Names : Cardinality(H) <= MaxIgnore}

\* queue.collect(...); if not queue.uninstallQueue: return
CliUninstallCollect ==
    /\ pc = "idle"
    /\ \E packages \in DeleteArgs, ignore \in IgnoreArgs, leaves \in BOOLEAN,
          no_dependencies \in BOOLEAN :
          IF missing(getDependencyTree, ignore) # {}
          THEN \* depTree.forward.assertExist(hiddenPkgs)
               /\ pc' = "done"
               /\ exitCode' = 1
               /\ args' = [packages |-> packages, ignore |-> ignore, leaves |-> leaves,
                           no_dependencies |-> no_dependencies]
               /\ UNCHANGED <<deletePkgs, warnings, skips, uninstallQueue, force, dryRun,
                              step, linksBefore>>
          ELSE LET plan == collect(packages, ignore, leaves, no_dependencies)
               IN  /\ args' = [packages |-> packages, ignore |-> ignore, leaves |-> leaves,
                               no_dependencies |-> no_dependencies]
                   /\ deletePkgs' = plan.deletePkgs
                   /\ warnings' = plan.warnings
                   /\ skips' = plan.skips
                   /\ uninstallQueue' = plan.uninstallQueue
                   /\ linksBefore' = UNION {unlinkPaths(links, p, TRUE, TRUE) :
                                               p \in Range(plan.uninstallQueue)}
                   /\ pc' = IF plan.uninstallQueue = <<>> THEN "done" ELSE "collected"
                   /\ exitCode' = 0
                   /\ UNCHANGED <<force, dryRun, step>>
    /\ UNCHANGED <<storeVars, linkVars, installVars>>
    /\ UNCHANGED <<recipeVars, loopVars, callVars>>

\* UninstallQueue.validateQueue: exit(1) if there are warnings
validateQueue == DOMAIN warnings # {}

\* if not args.force: queue.validateQueue()
CliUninstallValidate ==
    /\ pc = "collected"
    /\ \E f \in BOOLEAN :
          /\ force' = f
          /\ IF ~f /\ validateQueue
             THEN pc' = "done" /\ exitCode' = 1
             ELSE pc' = "confirm" /\ exitCode' = 0
    /\ UNCHANGED <<storeVars, args, deletePkgs, warnings, skips, uninstallQueue, dryRun,
                   step, linksBefore, linkVars, installVars>>
    /\ UNCHANGED <<recipeVars, loopVars, callVars>>

\* if args.dry or args.yes or Utils.ask(...): queue.uninstall(dryRun=args.dry)
CliUninstallConfirm ==
    /\ pc = "confirm"
    /\ \E dry \in BOOLEAN, proceed \in BOOLEAN :
          IF dry \/ proceed
          THEN pc' = "uninstall" /\ dryRun' = dry /\ step' = 1
          ELSE pc' = "done" /\ UNCHANGED <<dryRun, step>>
    /\ UNCHANGED <<storeVars, exitCode, args, deletePkgs, warnings, skips, uninstallQueue,
                   force, linksBefore, linkVars, installVars>>
    /\ UNCHANGED <<recipeVars, loopVars, callVars>>

\* (mutant) one loop: each package is unlinked and removed in turn
uninstallOpOneLoop(queue, k) ==
    IF k % 2 = 1 THEN [op |-> "unlink", pkg |-> queue[(k + 1) \div 2]]
    ELSE [op |-> "remove", pkg |-> queue[k \div 2]]

\* UninstallQueue.uninstall: the k-th file-system operation of its two loops
uninstallOp(queue, k) ==
    IF k <= Len(queue) THEN [op |-> "unlink", pkg |-> queue[k]]
    ELSE [op |-> "remove", pkg |-> queue[k - Len(queue)]]

\* File.remove(pkg.path): rmtree of Cellar/<pkg>
removePackageDir(pkg) ==
    /\ versions' = [versions EXCEPT ![pkg] = {}]
    /\ primary' = primary \ {pkg}
    /\ pinned' = pinned \ {pkg}
    /\ cellarFiles' = {f \in cellarFiles : f[1] # pkg}

UninstallStep ==
    /\ pc = "uninstall"
    /\ step <= 2 * Len(uninstallQueue)
    /\ LET o == uninstallOp(uninstallQueue, step)
       IN  IF dryRun THEN UNCHANGED storeVars
           ELSE IF o.op = "unlink"
           THEN LET ls == unlink(links, o.pkg, TRUE, TRUE)
                IN  /\ optLink' = ls.opt
                    /\ binLink' = ls.bin
                    /\ UNCHANGED <<versions, primary, pinned, recipeDeps, binaries,
                                   cellarFiles>>
           ELSE /\ removePackageDir(o.pkg)
                /\ UNCHANGED <<recipeDeps, binaries, optLink, binLink>>
    /\ step' = step + 1
    /\ UNCHANGED <<pc, exitCode, args, deletePkgs, warnings, skips, uninstallQueue, force,
                   dryRun, linksBefore, linkVars, installVars>>
    /\ UNCHANGED <<recipeVars, loopVars, callVars>>

UninstallDone ==
    /\ pc = "uninstall"
    /\ step > 2 * Len(uninstallQueue)
    /\ pc' = "done"
    /\ UNCHANGED <<storeVars, exitCode, uninstallVars, linkVars, installVars>>
    /\ UNCHANGED <<recipeVars, loopVars, callVars>>

(***************************************************************************)
(* cli_link, cli_unlink, cli_switch.  Each is one run of the program; hist *)
(* notes the runs that got as far as unlink() or link(), and the switch to *)
(* the version that is active already, with the links they found.          *)
(***************************************************************************)
MaxOps == 3

Noted(cmd, pkg, version, opt, bin, done) ==
    Append(hist, [cmd |-> cmd, pkg |-> pkg, version |-> version, opt |-> opt,
                  bin |-> bin, done |-> done, before |-> links])

\* auto-fill version if there is only one installed
autoVersion(pkg, version) ==
    IF version = None /\ Cardinality(allVersions(pkg)) = 1
    THEN CHOOSE v \in allVersions(pkg) : TRUE
    ELSE version

\* frc is args.force, one of Forces.  RubyParser raises FileNotFoundError when
\* the recipe of the version is not there.
CliLinkWith(Forces) ==
    /\ pc = "idle"
    /\ Len(hist) < MaxOps
    /\ \E package \in Names, version \in Versions \cup {None}, bin \in BOOLEAN,
          no_bin \in BOOLEAN, dry \in BOOLEAN, frc \in Forces :
          LET relink == activeVersion(package) # None /\ bin
              v == IF relink THEN activeVersion(package) ELSE autoVersion(package, version)
              stop == \/ activeVersion(package) # None /\ ~bin
                      \/ v = None
                      \/ v \notin allVersions(package)
              ls == link(links, package, v, ~bin, ~no_bin)
          IN  /\ force' = frc
              /\ IF ~installed(package)
                 THEN /\ exitCode' = 1
                      /\ UNCHANGED <<optLink, binLink, hist>>
                 ELSE IF stop
                 THEN /\ exitCode' = 0
                      /\ UNCHANGED <<optLink, binLink, hist>>
                 ELSE IF ~frc /\ rubyPath(package, v) \notin cellarFiles
                 THEN /\ exitCode' = 1
                      /\ UNCHANGED <<optLink, binLink, hist>>
                 ELSE IF (~frc /\ isKegOnly(package)) \/ dry
                 THEN /\ exitCode' = 0
                      /\ UNCHANGED <<optLink, binLink, hist>>
                 ELSE /\ exitCode' = 0
                      /\ hist' = Noted("link", package, v, ~bin, ~no_bin, TRUE)
                      /\ optLink' = ls.opt
                      /\ binLink' = ls.bin
    /\ UNCHANGED <<versions, primary, pinned, recipeDeps, binaries, cellarFiles, pc,
                   args, deletePkgs, warnings, skips, uninstallQueue, dryRun, step,
                   linksBefore, installVars>>
    /\ UNCHANGED <<recipeVars, loopVars, callVars>>

CliUnlink ==
    /\ pc = "idle"
    /\ Len(hist) < MaxOps
    /\ \E package \in Names, bin \in BOOLEAN, dry \in BOOLEAN :
          LET ls == unlink(links, package, ~bin, TRUE)
          IN  IF ~installed(package)
              THEN /\ exitCode' = 1
                   /\ UNCHANGED <<optLink, binLink, hist>>
              ELSE IF activeVersion(package) = None \/ dry
              THEN /\ exitCode' = 0
                   /\ UNCHANGED <<optLink, binLink, hist>>
              ELSE /\ exitCode' = 0
                   /\ hist' = Noted("unlink", package, None, ~bin, TRUE, TRUE)
                   /\ optLink' = ls.opt
                   /\ binLink' = ls.bin
    /\ UNCHANGED <<versions, primary, pinned, recipeDeps, binaries, cellarFiles, pc,
                   uninstallVars, installVars>>
    /\ UNCHANGED <<recipeVars, loopVars, callVars>>

\* convenience toggle
toggleVersion(pkg, version) ==
    IF version = None /\ Cardinality(inactiveVersions(pkg)) = 1
    THEN CHOOSE v \in inactiveVersions(pkg) : TRUE
    ELSE version

\* (mutant) the bin-links are made again whether the package had any or not
hasBinLinksAlways(pkg) == TRUE

\* hasBinLinks = bool(pkg.binLinks)
hasBinLinks(pkg) == binLinks(links, pkg) # {}

\* link() raises RuntimeError('Package not installed') after unlink() is done
CliSwitch ==
    /\ pc = "idle"
    /\ Len(hist) < MaxOps
    /\ \E package \in Names, version \in Versions \cup {None} :
          LET v == toggleVersion(package, version)
              unlinked == unlink(links, package, TRUE, hasBinLinks(package))
              linked == link(unlinked, package, v, TRUE, hasBinLinks(package))
          IN  IF ~installed(package)
              THEN /\ exitCode' = 1
                   /\ UNCHANGED <<optLink, binLink, hist>>
              ELSE IF activeVersion(package) = None \/ v = None
              THEN /\ exitCode' = 0
                   /\ UNCHANGED <<optLink, binLink, hist>>
              ELSE IF activeVersion(package) = version
              THEN \* already on
                   /\ exitCode' = 0
                   /\ hist' = Noted("switch", package, version, TRUE, FALSE, FALSE)
                   /\ UNCHANGED <<optLink, binLink>>
              ELSE IF v \notin allVersions(package)
              THEN /\ exitCode' = 1
                   /\ hist' = Noted("switch", package, v, TRUE, hasBinLinks(package), FALSE)
                   /\ optLink' = unlinked.opt
                   /\ binLink' = unlinked.bin
              ELSE /\ exitCode' = 0
                   /\ hist' = Noted("switch", package, v, TRUE, hasBinLinks(package), TRUE)
                   /\ optLink' = linked.opt
                   /\ binLink' = linked.bin
    /\ UNCHANGED <<versions, primary, pinned, recipeDeps, binaries, cellarFiles, pc,
                   uninstallVars, installVars>>
    /\ UNCHANGED <<recipeVars, loopVars, callVars>>

(***************************************************************************)
(* cli_toggle                                                              *)
(***************************************************************************)
\* pkg.name.split('@')[0].  Of the names here b is a versioned alias of a
\* (it stands for a@2); the other names have no '@'.
baseName(name) == IF name = "b" THEN "a" ELSE name

\* allVersions: the installed packages x with x.name == baseName or
\* x.name.startswith(baseName + '@')
family(pkg) == {x \in infoAll : baseName(x) = baseName(pkg)}

\* (mutant) active when any package of the family holds bin-links
isActiveFamily(pkg) == \E x \in family(pkg) : binLinks(links, x) # {}

\* isActive = bool(pkg.binLinks)
isActive(pkg) == binLinks(links, pkg) # {}

\* for prev in allVersions: prev.unlink(unlinkOpt=False, unlinkBin=True)
RECURSIVE unlinkEach(_, _)
unlinkEach(ls, pkgs) ==
    IF pkgs = <<>> THEN ls
    ELSE unlinkEach(unlink(ls, Head(pkgs), FALSE, TRUE), Tail(pkgs))

CliToggle ==
    /\ pc = "idle"
    /\ Len(hist) < MaxOps
    /\ \E package \in Names :
          LET unlinked == unlinkEach(links, sorted(family(package)))
              linked == link(unlinked, package, activeVersion(package), FALSE, TRUE)
          IN  IF ~installed(package)
              THEN /\ exitCode' = 1
                   /\ UNCHANGED <<optLink, binLink, hist>>
              ELSE IF activeVersion(package) = None
              THEN /\ exitCode' = 0
                   /\ UNCHANGED <<optLink, binLink, hist>>
              ELSE /\ exitCode' = 0
                   /\ hist' = Noted("toggle", package, activeVersion(package), FALSE, TRUE,
                                    TRUE)
                   /\ optLink' = (IF isActive(package) THEN unlinked ELSE linked).opt
                   /\ binLink' = (IF isActive(package) THEN unlinked ELSE linked).bin
    /\ UNCHANGED <<versions, primary, pinned, recipeDeps, binaries, cellarFiles, pc,
                   uninstallVars, installVars>>
    /\ UNCHANGED <<recipeVars, loopVars, callVars>>

(***************************************************************************)
(* cli_cleanup                                                             *)
(***************************************************************************)
\* the names `cleanup` is given: none, or some
CleanupArgs == {P \in SUBSET Names : Cardinality(P) <= MaxDelete}

\* LocalPackage.cleanup on each of pkgs: the versions left
cleanup(pkgs) ==
    [p \in Names |->
        IF p \in pkgs /\ p \notin pinned
        THEN allVersions(p) \ inactiveVersions(p)
        ELSE allVersions(p)]

\* while dangling := depTree.reverse.directEnd() & depsOnly: ...
\* gone is the set of packages File.remove was called on
RECURSIVE removeDangling(_, _, _)
removeDangling(reverse, depsOnly, gone) ==
    LET dangling == directEnd(reverse) \cap depsOnly
    IN  IF dangling = {} THEN gone
        ELSE removeDangling([k \in DOMAIN reverse \ dangling |-> reverse[k] \ dangling],
                            depsOnly \ dangling, gone \cup dangling)

\* the files of cellarFiles outside the version directories and the package
\* directories that were removed
filesLeft(left, gone) ==
    {f \in cellarFiles :
        f[1] \in Names =>
            /\ f[1] \notin gone
            /\ Len(f) >= 2 => f[2] \notin (versions[f[1]] \ left[f[1]])}

\* os.path.exists(link.target) for the links in opt/ and bin/, given the
\* versions that are left
optTargetExists(left, pkg) == optLink[pkg] \in left[pkg]

binTargetExists(left, exe) ==
    LET pkg == binLink[exe]
    IN  /\ optLink[pkg] # None
        /\ optTargetExists(left, pkg)
        /\ exe \in binaries[pkg][optLink[pkg]]

\* lnk.target.startswith(x) for a deadPath x, the path of a named package
optBelow(pkgs, pkg) == pkg \in pkgs

binBelow(pkgs, exe) == binLink[exe] \in pkgs /\ optLink[binLink[exe]] # None

CliCleanup ==
    /\ pc = "idle"
    /\ \E packages \in CleanupArgs, dry \in BOOLEAN :
          IF \E p \in packages : ~installed(p)
          THEN \* Cellar.infoAll(args.packages, assertInstalled=True)
               /\ pc' = "done"
               /\ exitCode' = 1
               /\ UNCHANGED storeVars
          ELSE LET pkgs == IF packages = {} THEN infoAll ELSE packages
                   \* remove all non-active versions
                   old == cleanup(pkgs)
                   \* remove dangling dependencies
                   forward == [p \in {q \in Names : old[q] # {}} |-> recipeDeps[p]]
                   depsOnly == {p \in pkgs : ~isPrimary(p)}
                   gone == IF packages = {}
                           THEN removeDangling(inverse(forward), depsOnly, {})
                           ELSE {}
                   left == [p \in Names |-> IF p \in gone THEN {} ELSE old[p]]
                   \* remove symlinks which point nowhere
                   deadOpt == {p \in Names : /\ optLink[p] # None
                                              /\ packages # {} => optBelow(pkgs, p)
                                              /\ ~optTargetExists(left, p)}
                   deadBin == {e \in Exes : /\ binLink[e] # None
                                             /\ packages # {} => binBelow(pkgs, e)
                                             /\ ~binTargetExists(left, e)}
               IN  /\ pc' = "done"
                   /\ exitCode' = 0
                   /\ IF dry THEN UNCHANGED storeVars
                      ELSE /\ versions' = left
                           /\ primary' = primary \ gone
                           /\ pinned' = pinned \ gone
                           /\ cellarFiles' = filesLeft(left, gone)
                           /\ optLink' = [p \in Names |->
                                             IF p \in deadOpt THEN None ELSE optLink[p]]
                           /\ binLink' = [e \in Exes |->
                                             IF e \in deadBin THEN None ELSE binLink[e]]
                           /\ UNCHANGED <<recipeDeps, binaries>>
    /\ UNCHANGED <<uninstallVars, linkVars, installVars>>
    /\ UNCHANGED <<recipeVars, loopVars, callVars>>

\* (mutant) the tree is not asked
danglingAll(l) == l.depsOnly

\* dangling := depTree.reverse.directEnd() & depsOnly
danglingOf(l) == directEnd(l.reverse) \cap l.depsOnly

\* `cleanup` without package arguments, step by step.  Up to the loop: the
\* old versions are removed, depTree and depsOnly are set.
CleanupBegin ==
    /\ pc = "idle"
    /\ \E dry \in BOOLEAN :
          LET old == cleanup(infoAll)
              new == IF dry THEN versions ELSE old
              forward == [p \in {q \in Names : new[q] # {}} |-> recipeDeps[p]]
          IN  /\ dryRun' = dry
              /\ versions' = new
              /\ cellarFiles' = IF dry THEN cellarFiles ELSE filesLeft(old, {})
              /\ loop' = [reverse |-> inverse(forward),
                          depsOnly |-> {p \in infoAll : ~isPrimary(p)}]
    /\ pc' = "dangling"
    /\ exitCode' = 0
    /\ UNCHANGED <<primary, pinned, recipeDeps, binaries, optLink, binLink>>
    /\ UNCHANGED <<args, deletePkgs, warnings, skips, uninstallQueue, force, step,
                   linksBefore, linkVars, installVars>>
    /\ UNCHANGED <<recipeVars, callVars>>

\* one turn of `while dangling := ...`: File.remove on each of dangling, which
\* leave depsOnly and the tree
DanglingStep ==
    /\ pc = "dangling"
    /\ LET dangling == danglingOf(loop)
       IN  /\ dangling # {}
           /\ loop' = [reverse |-> [k \in DOMAIN loop.reverse \ dangling |->
                                       loop.reverse[k] \ dangling],
                       depsOnly |-> loop.depsOnly \ dangling]
           /\ IF dryRun THEN UNCHANGED <<versions, primary, pinned, cellarFiles>>
              ELSE /\ versions' = [p \in Names |-> IF p \in dangling THEN {} ELSE versions[p]]
                   /\ primary' = primary \ dangling
                   /\ pinned' = pinned \ dangling
                   /\ cellarFiles' = {f \in cellarFiles : f[1] \notin dangling}
    /\ UNCHANGED <<recipeDeps, binaries, optLink, binLink, cmdVars, uninstallVars,
                   linkVars, installVars>>
    /\ UNCHANGED <<recipeVars, callVars>>

\* the loop has ended: remove symlinks which point nowhere
CleanupEnd ==
    /\ pc = "dangling"
    /\ danglingOf(loop) = {}
    /\ LET deadOpt == {p \in Names : optLink[p] # None /\ ~optTargetExists(versions, p)}
           deadBin == {e \in Exes : binLink[e] # None /\ ~binTargetExists(versions, e)}
       IN  IF dryRun THEN UNCHANGED <<optLink, binLink>>
           ELSE /\ optLink' = [p \in Names |-> IF p \in deadOpt THEN None ELSE optLink[p]]
                /\ binLink' = [e \in Exes |-> IF e \in deadBin THEN None ELSE binLink[e]]
    /\ pc' = "done"
    /\ UNCHANGED <<versions, primary, pinned, recipeDeps, binaries, cellarFiles, exitCode,
                   uninstallVars, linkVars, installVars>>
    /\ UNCHANGED <<recipeVars, callVars, loopVars>>

(***************************************************************************)
(* TarPackage.  A tar entry is a record: name is the member's name split   *)
(* at "/", abs says that it starts with "/", type is the member's type,    *)
(* linkname and linkabs are the same for the target of a link.  A path of  *)
(* the file system is the sequence of its parts from "/".                  *)
(***************************************************************************)
ROOT == <<"root">>
CELLAR == ROOT \o <<"Cellar">>

Entry(name, type) ==
    [name |-> name, abs |-> FALSE, type |-> type, linkname |-> <<>>, linkabs |-> FALSE]

LinkEntry(name, type, linkname) ==
    [name |-> name, abs |-> FALSE, type |-> type, linkname |-> linkname, linkabs |-> FALSE]

\* os.path.realpath(os.path.join(base, path)) where no part is a symlink
RECURSIVE realpath(_, _)
realpath(base, path) ==
    IF path = <<>> THEN base
    ELSE LET part == Head(path)
             up == IF base = <<>> THEN <<>> ELSE SubSeq(base, 1, Len(base) - 1)
         IN  realpath(IF part = ".." THEN up ELSE Append(base, part), Tail(path))

\* os.path.commonpath([target_path, dest_path]) != dest_path
breaksBounds(target_path, dest_path) ==
    \/ Len(target_path) < Len(dest_path)
    \/ SubSeq(target_path, 1, Len(dest_path)) # dest_path

dirname(name) == SubSeq(name, 1, Len(name) - 1)

\* TarPackage.filter: whether the member may be extracted, and the warning
filter(member, dest_path) ==
    IF member.abs
    THEN [ok |-> FALSE, warn |-> "reject absolute path"]
    ELSE IF breaksBounds(realpath(dest_path, member.name), dest_path)
    THEN [ok |-> FALSE, warn |-> "path breaks cellar bounds"]
    ELSE IF member.type \notin {"reg", "lnk", "dir", "sym"}
    THEN [ok |-> FALSE, warn |-> "reject special files"]
    ELSE IF member.type \in {"lnk", "sym"} /\ member.linkabs
    THEN [ok |-> FALSE, warn |-> "reject symlink absolute path"]
    ELSE IF /\ member.type \in {"lnk", "sym"}
            /\ breaksBounds(
                   realpath(dest_path,
                            IF member.type = "sym"
                            THEN dirname(member.name) \o member.linkname
                            ELSE member.linkname),
                   dest_path)
    THEN [ok |-> FALSE, warn |-> "symlink breaks cellar bounds"]
    ELSE [ok |-> TRUE, warn |-> "none"]

\* x.isdir() and x.path.endswith('/.brew')
isBrewDir(x) == x.type = "dir" /\ Len(x.name) >= 2 /\ x.name[Len(x.name)] = ".brew"

\* (mutant) a prohibited entry ends the loop and nothing is kept
RECURSIVE extractLoopAborts(_, _, _)
extractLoopAborts(entries, dry, acc) ==
    IF entries = <<>> THEN acc
    ELSE LET x == Head(entries)
             f == filter(x, CELLAR)
         IN  IF f.ok
             THEN extractLoopAborts(Tail(entries), dry,
                      [acc EXCEPT !.subset = Append(@, x),
                                  !.bundle = IF @ = <<>> /\ isBrewDir(x)
                                             THEN <<x.name[1], x.name[2]>> ELSE @])
             ELSE [subset |-> <<>>, bundle |-> <<>>,
                   log |-> acc.log \o <<[lvl |-> 1, msg |-> f.warn, entry |-> x.name],
                                        [lvl |-> 0, msg |-> "prohibited tar entry",
                                         entry |-> x.name]>>]

\* TarPackage.extract: the loop `for x in tar`.  acc.subset are the members
\* kept, acc.bundle is <<pkg, version>> once a .brew directory was seen,
\* acc.log are the messages for the summary.
RECURSIVE extractLoop(_, _, _)
extractLoop(entries, dry, acc) ==
    IF entries = <<>> THEN acc
    ELSE LET x == Head(entries)
             f == filter(x, CELLAR)
             found == acc.bundle = <<>> /\ isBrewDir(x)
         IN  IF f.ok
             THEN IF found /\ dry
                  THEN \* break
                       [acc EXCEPT !.subset = Append(@, x),
                                   !.bundle = <<x.name[1], x.name[2]>>]
                  ELSE extractLoop(Tail(entries), dry,
                           [acc EXCEPT !.subset = Append(@, x),
                                       !.bundle = IF found THEN <<x.name[1], x.name[2]>>
                                                  ELSE @])
             ELSE extractLoop(Tail(entries), dry,
                      [acc EXCEPT !.log = @ \o
                          <<[lvl |-> 1, msg |-> f.warn, entry |-> x.name],
                            [lvl |-> 0, msg |-> "prohibited tar entry", entry |-> x.name]>>])

\* TarPackage.extract of a file that exists: bundle is <<>> for None
extract(entries, dry) ==
    LET acc == extractLoop(entries, dry, [subset |-> <<>>, bundle |-> <<>>, log |-> <<>>])
    IN  IF acc.bundle = <<>>
        THEN [bundle |-> <<>>, subset |-> <<>>,
              log |-> Append(acc.log, [lvl |-> 0, msg |-> ".brew dir missing",
                                       entry |-> <<>>])]
        ELSE [bundle |-> acc.bundle,
              subset |-> IF dry THEN <<>> ELSE acc.subset,
              log |-> acc.log]

\* tar.extractall(Cellar.CELLAR, subset): the paths written
extractall(subset) == {realpath(CELLAR, subset[i].name) : i \in 1..Len(subset)}

\* Log._log with summary=True: printed to Log._SUMMARY if Log.LEVEL >= lvl
logged(log) == SelectSeq(log, LAMBDA m : logLevel >= m.lvl)

(***************************************************************************)
(* Brew: the manifests and the bottles.  remote[pkg] is what Brew.info     *)
(* gives: version, the list dependencies, digest (whether the platform has *)
(* one), and bottle, "ok" for an archive of the package and "broken" for   *)
(* one without a .brew directory.                                          *)
(***************************************************************************)
info(pkg) == remote[pkg]

RECURSIVE seqOf(_)
seqOf(S) == IF S = {} THEN <<>>
            ELSE LET x == CHOOSE y \in S : TRUE IN <<x>> \o seqOf(S \ {x})

\* the entries of download/<pkg>-<version>.tar.gz
bottle(pkg, version) ==
    IF remote[pkg].bottle = "ok"
    THEN <<Entry(<<pkg, version, ".brew">>, "dir"), Entry(rubyPath(pkg, version), "reg")>>
         \o [i \in 1..Cardinality(binaries[pkg][version]) |->
                Entry(<<pkg, version, "bin", seqOf(binaries[pkg][version])[i]>>, "reg")]
    ELSE <<Entry(<<pkg, version, "README">>, "reg")>>

\* an archive in installQueue is named by <<pkg, version>>, the tar file on
\* disk by TarFile
TarName == "file.tar.gz"
TarFile == <<TarName, "">>

tarEntries(tar) == IF tar = TarFile THEN tarFile ELSE bottle(tar[1], tar[2])

(***************************************************************************)
(* InstallQueue                                                            *)
(***************************************************************************)
\* InstallQueue.__init__, with the arguments install() is called with later
InstallQueue(dry, frc) ==
    [dryRun |-> dry, force |-> frc, primary |-> {}, missingDigest |-> <<>>,
     downloadQueue |-> <<>>, installQueue |-> <<>>, finished |-> <<>>,
     skipLink |-> TRUE, linkPrim |-> FALSE, linkDeps |-> FALSE, isUpgrade |-> FALSE,
     keep |-> FALSE, pos |-> 0, bundle |-> <<>>]

add(q, pkg, version, digest) ==
    IF ~q.force /\ version \in allVersions(pkg) THEN q
    ELSE IF ~digest THEN [q EXCEPT !.missingDigest = Append(@, pkg)]
    ELSE [q EXCEPT !.downloadQueue = Append(@, [package |-> pkg, version |-> version])]

\* addRecursive: while queue: pkg = queue.pop(0) ...
RECURSIVE addRecursiveLoop(_, _, _)
addRecursiveLoop(q, queue, done) ==
    IF queue = <<>> THEN q
    ELSE LET pkg == Head(queue)
         IN  IF pkg \in done THEN addRecursiveLoop(q, Tail(queue), done)
             ELSE addRecursiveLoop(add(q, pkg, info(pkg).version, info(pkg).digest),
                                   Tail(queue) \o info(pkg).dependencies,
                                   done \cup {pkg})

addRecursive(q, pkg) ==
    addRecursiveLoop([q EXCEPT !.primary = @ \cup {pkg}], <<pkg>>,
                     Range(q.missingDigest)
                         \cup {q.downloadQueue[i].package : i \in 1..Len(q.downloadQueue)})

\* InstallQueue.init: a tar file, or a package with or without dependencies
init(q, pkgOrFile, recursive) ==
    IF pkgOrFile = TarName
    THEN [q EXCEPT !.installQueue = Append(@, TarFile), !.primary = @ \cup {pkgOrFile}]
    ELSE IF recursive THEN addRecursive(q, pkgOrFile)
    ELSE [add(q, pkgOrFile, info(pkgOrFile).version, info(pkgOrFile).digest)
             EXCEPT !.primary = @ \cup {pkgOrFile}]

RECURSIVE initAll(_, _, _)
initAll(q, needsInstall, recursive) ==
    IF needsInstall = <<>> THEN q
    ELSE initAll(init(q, Head(needsInstall), recursive), Tail(needsInstall), recursive)

\* InstallQueue.validateQueue: exit(1) if a digest is missing
missingDigest(q) == q.missingDigest # <<>>

\* InstallQueue.download: the archives, in the order of downloadQueue
download(q) ==
    [q EXCEPT !.installQueue = @ \o [i \in 1..Len(q.downloadQueue) |->
                <<q.downloadQueue[i].package, q.downloadQueue[i].version>>]]

\* Brew.downloadBottle writes no file in a dry run
isfile(tar) == tar = TarFile \/ ~iq.dryRun

\* (mutant) the archives are installed in the order of the queue
nextTarForward(q, k) == q.installQueue[k]

\* for tar in reversed(self.installQueue): the k-th archive
nextTar(q, k) == q.installQueue[Len(q.installQueue) + 1 - k]

(***************************************************************************)
(* cli_install, cli_upgrade and InstallQueue.install                       *)
(***************************************************************************)
MaxInstall == 2

\* args.packages: a list of different package names or tar files
InstallArgs(Targets) ==
    {s \in UNION {[1..n -> Targets] : n \in 1..MaxInstall} :
        \A i, j \in DOMAIN s : i # j => s[i] # s[j]}

\* what the command finds, for the properties
storeFound == [versions |-> versions, optLink |-> optLink, pinned |-> pinned,
               binaries |-> binaries, primary |-> primary, cellarFiles |-> cellarFiles]

\* linkPrim and linkDeps are args.binaries or, without it, config.ini's
\* link_bin_primary and link_bin_dependency
CliInstall(Targets) ==
    /\ pc = "idle"
    /\ \E packages \in InstallArgs(Targets), frc \in BOOLEAN, dry \in BOOLEAN,
          no_dependencies \in BOOLEAN, skip_link \in BOOLEAN, linkPrim \in BOOLEAN,
          linkDeps \in BOOLEAN :
          LET needsInstall ==
                  IF frc THEN packages
                  ELSE SelectSeq(packages, LAMBDA x : x = TarName \/ ~installed(x))
              q == download(initAll(InstallQueue(dry, frc), needsInstall, ~no_dependencies))
          IN  /\ args' = [packages |-> packages]
              /\ before' = storeFound
              /\ IF needsInstall = <<>>
                 THEN pc' = "done" /\ exitCode' = 0 /\ UNCHANGED <<iq, summary>>
                 ELSE IF missingDigest(q)
                 THEN pc' = "done" /\ exitCode' = 1 /\ UNCHANGED <<iq, summary>>
                 ELSE IF q.installQueue = <<>>
                 THEN \* nothing to install
                      pc' = "done" /\ exitCode' = 0 /\ UNCHANGED <<iq, summary>>
                 ELSE /\ pc' = "install"
                      /\ exitCode' = 0
                      /\ iq' = [q EXCEPT !.skipLink = skip_link, !.linkPrim = linkPrim,
                                         !.linkDeps = linkDeps, !.pos = 1]
                      /\ summary' = <<>>
    /\ extracted' = <<>>
    /\ UNCHANGED <<storeVars, deletePkgs, warnings, skips, uninstallQueue, force, dryRun,
                   step, linksBefore, linkVars, remote, tarFile, logLevel>>
    /\ UNCHANGED <<recipeVars, loopVars, callVars>>

\* the loop of cli_upgrade over Cellar.infoAll(args.packages)
RECURSIVE upgradeQueue(_, _, _, _, _, _)
upgradeQueue(q, pkgs, packages, all, withPinned, no_dependencies) ==
    IF pkgs = <<>> THEN q
    ELSE LET pkg == Head(pkgs)
             userRequested == pkg \in packages
             skip == \/ ~(isPrimary(pkg) \/ userRequested \/ all)
                     \/ pkg \in pinned /\ ~(userRequested \/ withPinned)
                     \/ info(pkg).version \in allVersions(pkg)
             next == IF skip THEN q
                     ELSE IF all \/ no_dependencies
                     THEN add(q, pkg, info(pkg).version, info(pkg).digest)
                     ELSE addRecursive(q, pkg)
         IN  upgradeQueue(next, Tail(pkgs), packages, all, withPinned, no_dependencies)

MaxUpgrade == 1

UpgradeArgs == {<<>>} \cup
    {s \in UNION {[1..n -> Names] : n \in 1..MaxUpgrade} :
        \A i, j \in DOMAIN s : i # j => s[i] # s[j]}

\* withPinned is args.pinned
CliUpgrade ==
    /\ pc = "idle"
    /\ \E packages \in UpgradeArgs, all \in BOOLEAN, withPinned \in BOOLEAN,
          no_dependencies \in BOOLEAN, keep \in BOOLEAN, dry \in BOOLEAN :
          LET pkgs == IF packages = <<>> THEN sorted(infoAll) ELSE packages
              q == upgradeQueue(InstallQueue(dry, FALSE), pkgs, Range(packages), all,
                                withPinned, no_dependencies)
          IN  /\ args' = [packages |-> packages, all |-> all, pinned |-> withPinned]
              /\ before' = storeFound
              /\ IF packages # <<>> /\ all
                 THEN pc' = "done" /\ exitCode' = 0 /\ UNCHANGED <<iq, summary>>
                 ELSE IF \E p \in Range(packages) : ~installed(p)
                 THEN pc' = "done" /\ exitCode' = 1 /\ UNCHANGED <<iq, summary>>
                 ELSE IF q.downloadQueue = <<>>
                 THEN \* All packages are up-to-date
                      pc' = "done" /\ exitCode' = 0 /\ UNCHANGED <<iq, summary>>
                 ELSE IF missingDigest(q)
                 THEN pc' = "done" /\ exitCode' = 1 /\ UNCHANGED <<iq, summary>>
                 ELSE /\ pc' = "install"
                      /\ exitCode' = 0
                      /\ iq' = [download(q) EXCEPT !.isUpgrade = TRUE, !.keep = keep,
                                                   !.pos = 1]
                      /\ summary' = <<>>
    /\ extracted' = <<>>
    /\ UNCHANGED <<storeVars, deletePkgs, warnings, skips, uninstallQueue, force, dryRun,
                   step, linksBefore, linkVars, remote, tarFile, logLevel>>
    /\ UNCHANGED <<recipeVars, loopVars, callVars>>

\* the path below Cellar/ of a path below CELLAR
shortPath(path) == SubSeq(path, Len(CELLAR) + 1, Len(path))

\* the paths of the members of subset that have one of the types
written(subset, types) ==
    {shortPath(realpath(CELLAR, subset[i].name)) :
        i \in {j \in 1..Len(subset) : subset[j].type \in types}} \ {<<>>}

(***************************************************************************)
(* Fixer: the placeholders of a text file.  A file is a sequence of        *)
(* segments: "fill" are len bytes without '@', "token" is the placeholder  *)
(* @@HOMEBREW_<key>@@ and "value" the bytes INREPLACE_DICT has for the     *)
(* key.  The byte offsets are those of the file on disk.                   *)
(***************************************************************************)
CHUNK_SIZE == 4096

\* the 30 of `idx > CHUNK_SIZE - 30`, `fp.seek(-30, 1)`, `chunk[idx + 2:idx + 30]`
Window == 30

\* len(needle), needle = b'@@HOMEBREW_'
NeedleLen == 11

\* len(Cellar.ROOT.encode('utf8')), of a store at /opt/brew.root
RootLen == 14

\* the length of <key>; FOO is a key INREPLACE_DICT does not have
KeyLen == [PREFIX |-> 6, CELLAR |-> 6, LIBRARY |-> 7, FOO |-> 3]

\* INREPLACE_DICT, by the lengths of its values: Cellar.ROOT,
\* Cellar.ROOT + '/Cellar' and Cellar.ROOT + '/Library'
INREPLACE_DICT == [PREFIX |-> RootLen, CELLAR |-> RootLen + 7, LIBRARY |-> RootLen + 8]

Fill(n) == [kind |-> "fill", key |-> "", len |-> n]
Token(key) == [kind |-> "token", key |-> key, len |-> NeedleLen + KeyLen[key] + 2]
Value(key) == [kind |-> "value", key |-> key, len |-> INREPLACE_DICT[key]]

\* the offset of segment i, and of the end of the file for i = Len(file) + 1
RECURSIVE offset(_, _)
offset(file, i) == IF i = 1 THEN 0 ELSE offset(file, i - 1) + file[i - 1].len

\* _read_placeholders_location: the loop `while True`, with fp.tell() = pos.
\* rv are the matches, each the index of its segment.  The needle is in the
\* chunk if a token begins in it and the chunk holds its first 11 bytes; the
\* suffix holds the closing '@@' if the token is no longer than 30 bytes and
\* the chunk holds all of it.
RECURSIVE readLoop(_, _, _)
readLoop(file, pos, rv) ==
    LET size == offset(file, Len(file) + 1)
        chunkEnd == IF pos + CHUNK_SIZE < size THEN pos + CHUNK_SIZE ELSE size
        needles == {i \in DOMAIN file : /\ file[i].kind = "token"
                                        /\ offset(file, i) >= pos
                                        /\ offset(file, i) + NeedleLen <= chunkEnd}
    IN  IF chunkEnd <= pos THEN rv
        ELSE IF needles = {} THEN readLoop(file, chunkEnd, rv)
        ELSE LET i == CHOOSE x \in needles : \A y \in needles : x <= y
                 idx == offset(file, i) - pos
                 end == offset(file, i) + file[i].len
             IN  IF idx > CHUNK_SIZE - Window
                 THEN readLoop(file, chunkEnd - Window, rv)
                 ELSE IF file[i].len <= Window /\ end <= chunkEnd
                 THEN readLoop(file, end, Append(rv, i))
                 ELSE readLoop(file, offset(file, i) + NeedleLen, rv)

read_placeholders_location(file) == readLoop(file, 0, <<>>)

KeyError == "KeyError"

\* _write_placeholders_replace: the bytes between the matches are copied and
\* each match is written as INREPLACE_DICT[match], which raises KeyError for a
\* key that is not there; the file fname is left as it is then
write_placeholders_replace(matches, file) ==
    IF \E k \in DOMAIN matches : file[matches[k]].key \notin DOMAIN INREPLACE_DICT
    THEN KeyError
    ELSE [i \in DOMAIN file |->
             IF \E k \in DOMAIN matches : matches[k] = i THEN Value(file[i].key)
             ELSE file[i]]

\* Fixer.inreplace: file is the file afterwards, raised whether KeyError was
\* raised, log the messages for the summary
inreplace(file) ==
    LET matches == read_placeholders_location(file)
        missed == SelectSeq(matches, LAMBDA i : file[i].key \notin DOMAIN INREPLACE_DICT)
        log == [k \in DOMAIN missed |->
                   [lvl |-> 0, msg |-> "missed placeholder",
                    entry |-> <<file[missed[k]].key>>]]
    IN  IF matches = <<>> THEN [file |-> file, raised |-> FALSE, log |-> <<>>]
        ELSE IF missed # <<>> THEN [file |-> file, raised |-> TRUE, log |-> log]
        ELSE [file |-> write_placeholders_replace(matches, file), raised |-> FALSE,
              log |-> log]

\* the package whose bottle has the text file
TextPackage == "b"

\* tar.extractall makes the directories above a member that are not there
parents(paths) == UNION {{SubSeq(f, 1, n) : n \in 1..(Len(f) - 1)} : f \in paths}

\* (mutant) a version is enumerated only with its recipe
brewDirsWithRecipe(files, dirs) ==
    {f \in dirs : /\ Len(f) = 3 /\ f[1] \in Names /\ f[2] \in Versions /\ f[3] = ".brew"
                  /\ rubyPath(f[1], f[2]) \in files}

\* allVersions, after the extraction: the directories Cellar/<pkg>/<ver>/.brew
\* among the directories made, whatever files were written
brewDirs(files, dirs) ==
    {f \in dirs : Len(f) = 3 /\ f[1] \in Names /\ f[2] \in Versions /\ f[3] = ".brew"}

\* one turn of `for tar in reversed(self.installQueue)` up to the post-install
\* stuff: TarPackage(tar).extract(dryRun=self.dryRun)
InstallStep ==
    /\ pc = "install"
    /\ iq.pos <= Len(iq.installQueue)
    /\ LET tar == nextTar(iq, iq.pos)
           r == extract(tarEntries(tar), iq.dryRun)
           members == written(r.subset, {"reg", "lnk", "dir", "sym"})
           all == members \cup parents(members)
           brew == brewDirs(all, written(r.subset, {"dir"}) \cup parents(members))
           bins == {f \in written(r.subset, {"reg"}) :
                       Len(f) = 4 /\ f[1] \in Names /\ f[2] \in Versions /\ f[3] = "bin"
                                  /\ f[4] \in Exes}
       IN  IF ~isfile(tar)
           THEN \* would install
                /\ iq' = [iq EXCEPT !.pos = @ + 1]
                /\ UNCHANGED <<pc, summary, extracted, versions, binaries, cellarFiles>>
           ELSE /\ summary' = summary \o logged(r.log)
                /\ IF r.bundle = <<>> \/ iq.dryRun
                   THEN /\ iq' = [iq EXCEPT !.pos = @ + 1]
                        /\ UNCHANGED <<pc, extracted, versions, binaries, cellarFiles>>
                   ELSE /\ iq' = [iq EXCEPT !.bundle = r.bundle]
                        /\ pc' = "post-install"
                        /\ extracted' = Append(extracted, tar)
                        /\ cellarFiles' = cellarFiles \cup all
                        /\ versions' = [p \in Names |->
                               versions[p] \cup {v \in Versions : <<p, v, ".brew">> \in brew}]
                        /\ binaries' = [p \in Names |-> [v \in Versions |->
                               binaries[p][v] \cup {e \in Exes : <<p, v, "bin", e>> \in bins}]]
    /\ UNCHANGED <<primary, pinned, recipeDeps, optLink, binLink, exitCode, uninstallVars,
                   linkVars, remote, tarFile, logLevel, before>>
    /\ UNCHANGED <<recipeVars, loopVars, callVars>>

\* the post-install stuff of the same turn: setPrimary, setDigest, fix, link.
\* vpkg.fix() runs Fixer.inreplace on the text file the version has; a
\* KeyError it raises ends the program.
PostInstall ==
    /\ pc = "post-install"
    /\ LET tar == nextTar(iq, iq.pos)
           pkg == iq.bundle[1]
           version == iq.bundle[2]
           isPrim == pkg \in iq.primary \/ (tar = TarFile /\ TarName \in iq.primary)
           fixed == IF pkg = TextPackage THEN inreplace(textFile)
                    ELSE [file |-> textFile, raised |-> FALSE, log |-> <<>>]
           linkBin == IF isPrim THEN iq.linkPrim ELSE iq.linkDeps
           unlinked == IF iq.isUpgrade THEN unlink(links, pkg, TRUE, FALSE)
                       ELSE unlink(links, pkg, TRUE, TRUE)
           queue == IF iq.isUpgrade THEN linkQueue(pkg, version, TRUE, FALSE)
                    ELSE linkQueue(pkg, version, TRUE, linkBin /\ ~isKegOnly(pkg))
           linked == IF iq.isUpgrade THEN link(unlinked, pkg, version, TRUE, FALSE)
                     ELSE link(unlinked, pkg, version, TRUE, linkBin /\ ~isKegOnly(pkg))
           skipped == seqOf({path[2] : path \in {x \in queue : linkExists(unlinked, x)}})
           log == (IF isKegOnly(pkg) /\ ~iq.isUpgrade
                   THEN <<[lvl |-> 1, msg |-> "keg-only, must link manually",
                           entry |-> <<pkg, version>>]>>
                   ELSE <<>>)
                  \o [i \in 1..Len(skipped) |->
                         [lvl |-> 1, msg |-> "skip already existing link",
                          entry |-> <<skipped[i]>>]]
       IN  /\ primary' = IF iq.isUpgrade THEN primary ELSE setPrimary(primary, pkg, isPrim)
           /\ cellarFiles' = cellarFiles \cup {digestPath(pkg, version)}
                 \cup (IF ~iq.isUpgrade /\ ~isPrim THEN {secondaryPath(pkg)} ELSE {})
           /\ IF fixed.raised
              THEN /\ pc' = "done"
                   /\ exitCode' = 1
                   /\ summary' = summary \o logged(fixed.log)
                   /\ UNCHANGED <<iq, optLink, binLink, textFile>>
              ELSE /\ textFile' = fixed.file
                   /\ iq' = [iq EXCEPT !.finished = Append(@, <<pkg, version>>),
                                       !.pos = @ + 1, !.bundle = <<>>]
                   /\ IF iq.skipLink \/ (iq.isUpgrade /\ optLink[pkg] = None)
                      THEN /\ pc' = "install"
                           /\ UNCHANGED <<optLink, binLink, summary, exitCode>>
                      ELSE IF ~iq.isUpgrade /\ rubyPath(pkg, version) \notin cellarFiles
                      THEN \* vpkg.isKegOnly: RubyParser raises FileNotFoundError
                           /\ pc' = "done"
                           /\ exitCode' = 1
                           /\ UNCHANGED <<optLink, binLink, summary>>
                      ELSE /\ pc' = "install"
                           /\ optLink' = linked.opt
                           /\ binLink' = linked.bin
                           /\ summary' = summary \o logged(log)
                           /\ UNCHANGED exitCode
    /\ UNCHANGED <<versions, pinned, recipeDeps, binaries,
                   uninstallVars, linkVars, remote, tarFile, logLevel, extracted, before>>
    /\ UNCHANGED <<recipeVars, loopVars, calls>>

\* the end of InstallQueue.install and what cli_upgrade goes on with
InstallDone ==
    /\ pc = "install"
    /\ iq.pos > Len(iq.installQueue)
    /\ pc' = IF iq.isUpgrade /\ ~(iq.keep \/ iq.dryRun) THEN "cleanup" ELSE "done"
    /\ UNCHANGED <<storeVars, exitCode, uninstallVars, linkVars, installVars>>
    /\ UNCHANGED <<recipeVars, loopVars, callVars>>

\* cli_upgrade: Delete old versions
UpgradeCleanup ==
    /\ pc = "cleanup"
    /\ LET left == cleanup({iq.finished[i][1] : i \in 1..Len(iq.finished)})
       IN  /\ versions' = left
           /\ cellarFiles' = filesLeft(left, {})
    /\ pc' = "done"
    /\ UNCHANGED <<primary, pinned, recipeDeps, binaries, optLink, binLink, exitCode,
                   uninstallVars, linkVars, installVars>>
    /\ UNCHANGED <<recipeVars, loopVars, callVars>>

(***************************************************************************)
(* RubyParser.parse, with rule evaluation (IGNORE_RULES is False).  A line *)
(* of a recipe is one of                                                   *)
(*   on       `on_<block> ... do`; flag is what _parse_block returns for   *)
(*            it on this machine                                           *)
(*   end      `end`                                                        *)
(*   do       another line that opens a block which an `end` closes        *)
(*            (`if ...`, `def ...`, `resource "..." do`)                   *)
(*   depends  `depends_on "<name>"`, with `=> <T>` or without, and without *)
(*            if-clause; form says what T is (none, a symbol, an array)    *)
(*            and toks are its tokens                                      *)
(***************************************************************************)
Line(kind, flag, name, form, toks) ==
    [kind |-> kind, flag |-> flag, name |-> name, form |-> form, toks |-> toks]

IGNORED_TARGETS == {":optional", ":build", ":test"}
TARGET_SYMBOLS == IGNORED_TARGETS \cup {":recommended"}

\* _unify_tok(tStr, tSym, tArr): the tokens of the target as a list
unify_tok(line) == IF line.form = "none" THEN <<>> ELSE line.toks

\* (mutant) only the first token of the target is looked at
is_ignored_target_first(values) == values # <<>> /\ values[1] \in IGNORED_TARGETS

\* _is_ignored_target
is_ignored_target(values) == \E i \in DOMAIN values : values[i] \in IGNORED_TARGETS

\* _parse_depends for `depends_on "<name>"`: no symbol, no action, no if
parse_depends(line) == ~is_ignored_target(unify_tok(line))

\* all(context)
all(context) == \A i \in DOMAIN context : context[i]

\* for line in self.readlines(): ...
RECURSIVE parseLoop(_, _, _)
parseLoop(lines, context, dependencies) ==
    IF lines = <<>> THEN dependencies
    ELSE LET line == Head(lines)
         IN  IF line.kind = "on"
             THEN parseLoop(Tail(lines), Append(context, line.flag), dependencies)
             ELSE IF line.kind = "end"
             THEN parseLoop(Tail(lines),
                            IF Len(context) > 1
                            THEN SubSeq(context, 1, Len(context) - 1) ELSE context,
                            dependencies)
             ELSE IF ~all(context)
             THEN parseLoop(Tail(lines), context, dependencies)
             ELSE IF line.kind = "depends" /\ parse_depends(line)
             THEN parseLoop(Tail(lines), context, dependencies \cup {line.name})
             ELSE parseLoop(Tail(lines), context, dependencies)

\* parse: self.dependencies, with context = [True] at the start
parse(lines) == parseLoop(lines, <<TRUE>>, {})

(***************************************************************************)
(* Stores.                                                                 *)
(***************************************************************************)
\* cli_cleanup is not in its loop
NoLoop == [reverse |-> [k \in {} |-> {}], depsOnly |-> {}]

IdleCommand ==
    /\ pc = "idle"
    /\ exitCode = 0
    /\ args = <<>>
    /\ force = FALSE
    /\ deletePkgs = <<>>
    /\ warnings = <<>>
    /\ skips = <<>>
    /\ uninstallQueue = <<>>
    /\ dryRun = FALSE
    /\ step = 0
    /\ linksBefore = {}
    /\ hist = <<>>
    /\ iq = InstallQueue(FALSE, FALSE)
    /\ summary = <<>>
    /\ extracted = <<>>
    /\ before = storeFound
    /\ calls = <<>>
    /\ loop = NoLoop

\* Log.LEVEL = 3 if args.verbose else Log.LEVEL - args.quiet
MaxQuiet == 3
LogLevels == {3} \cup {2 - quiet : quiet \in 0..MaxQuiet}

\* Every package has a manifest for the version, with a digest and a bottle.
Manifest(version, dependencies) ==
    [version |-> version, dependencies |-> dependencies, digest |-> TRUE, bottle |-> "ok"]

\* The commands of these stores call Fixer on no file.
NoTextFile == textFile = <<>>

\* The commands of these stores have no recipe parsed line by line.
NoRecipe == recipe = <<>>

\* The commands of these stores ask for no manifest and read no archive.
NoInstall ==
    /\ remote = [n \in Names |-> Manifest("1.0", <<>>)]
    /\ tarFile = <<>>
    /\ logLevel = 2

\* Every acyclic dependency graph over four packages, up to renaming: an edge
\* goes from a package to one later in the order.  Packages a, b, c are
\* installed; d is installed or is a dependency that is missing.
InitPlan ==
    /\ \E dInstalled \in BOOLEAN :
          versions = [n \in Names |-> IF n = "d" /\ ~dInstalled THEN {} ELSE {"1.0"}]
    /\ recipeDeps \in [Names -> SUBSET Names]
    /\ \A n \in Names : \A m \in recipeDeps[n] : NameOrder[n] < NameOrder[m]
    /\ primary \in SUBSET {n \in Names : versions[n] # {}}
    /\ pinned = {}
    /\ binaries = [n \in Names |-> [v \in Versions |-> {}]]
    /\ optLink = [n \in Names |-> IF versions[n] # {} THEN "1.0" ELSE None]
    /\ binLink = [e \in Exes |-> None]
    /\ cellarFiles = kegFiles(versions, binaries)
    /\ NoInstall
    /\ kegOnly = {}
    /\ NoRecipe
    /\ NoTextFile
    /\ IdleCommand

NextPlan == CliUninstallCollect

SpecPlan == InitPlan /\ [][NextPlan]_vars

\* Three installed packages with every acyclic dependency graph among them.
\* Package a has executable x and is active, inactive, or inactive with a
\* bin-link left by `link --bin`; b has executable y and is active.
InitUninstall ==
    /\ versions = [n \in Names |-> IF n = "d" THEN {} ELSE {"1.0"}]
    /\ recipeDeps \in [Names -> SUBSET (Names \ {"d"})]
    /\ \A n \in Names : \A m \in recipeDeps[n] : NameOrder[n] < NameOrder[m]
    /\ primary \in SUBSET {"b"}
    /\ pinned = {}
    /\ binaries = [n \in Names |-> [v \in Versions |->
                      IF n = "a" THEN {"x"} ELSE IF n = "b" THEN {"y"} ELSE {}]]
    /\ \E aActive \in BOOLEAN :
          optLink = [n \in Names |->
                       IF n = "d" \/ (n = "a" /\ ~aActive) THEN None ELSE "1.0"]
    /\ binLink \in [Exes -> {None, "a", "b"}]
    /\ \A e \in Exes : binLink[e] # None => e \in binaries[binLink[e]]["1.0"]
    /\ cellarFiles = kegFiles(versions, binaries)
    /\ NoInstall
    /\ kegOnly = {}
    /\ NoRecipe
    /\ NoTextFile
    /\ IdleCommand

NextUninstall ==
    \/ CliUninstallCollect
    \/ CliUninstallValidate
    \/ CliUninstallConfirm
    \/ UninstallStep
    \/ UninstallDone

SpecUninstall == InitUninstall /\ [][NextUninstall]_vars

\* Package a with versions 1.0 and 2.0 and package b with version 1.0; the
\* executables of a's versions are any, b has executable y.  A package is
\* inactive or active on 1.0, and a bin-link goes through the opt-link of an
\* active package that has the executable in one of its versions (in the
\* active one after `link`, in another after `link --bin <version>` on the
\* inactive package and `link --no-bin`).
InitLink ==
    /\ versions = [n \in Names |->
                      IF n = "a" THEN {"1.0", "2.0"} ELSE IF n = "b" THEN {"1.0"} ELSE {}]
    /\ recipeDeps = [n \in Names |-> {}]
    /\ primary = {"a", "b"}
    /\ pinned = {}
    /\ \E a1 \in SUBSET Exes, a2 \in SUBSET Exes :
          binaries = [n \in Names |-> [v \in Versions |->
                        IF n = "a" THEN (IF v = "1.0" THEN a1 ELSE a2)
                        ELSE IF n = "b" THEN {"y"} ELSE {}]]
    /\ optLink \in [Names -> {"1.0", None}]
    /\ \A n \in Names : optLink[n] # None => optLink[n] \in versions[n]
    /\ binLink \in [Exes -> {None, "a", "b"}]
    /\ \A e \in Exes : binLink[e] # None =>
          /\ optLink[binLink[e]] # None
          /\ \E v \in versions[binLink[e]] : e \in binaries[binLink[e]][v]
    /\ cellarFiles = kegFiles(versions, binaries)
    /\ NoInstall
    /\ kegOnly = {}
    /\ NoRecipe
    /\ NoTextFile
    /\ IdleCommand

\* No package of this store is keg-only and no recipe is missing, so that
\* --force changes nothing here
CliLink == CliLinkWith({FALSE})

NextLink ==
    \/ CliLink
    \/ CliUnlink
    \/ CliSwitch

SpecLink == InitLink /\ [][NextLink]_vars

\* Packages a and b have any installed versions and are inactive or active
\* on one of them, c has version 1.0 active; a bin-link is there or not for
\* b's executable.  Any packages are pinned, any primary, with every acyclic
\* dependency graph.
InitCleanup ==
    /\ versions \in [Names -> SUBSET Versions]
    /\ versions["c"] = {"1.0"} /\ versions["d"] = {}
    /\ versions["a"] # {} /\ versions["b"] # {}
    /\ optLink \in [Names -> Versions \cup {None}]
    /\ optLink["c"] = "1.0"
    /\ \A n \in Names : optLink[n] # None => optLink[n] \in versions[n]
    /\ recipeDeps \in [Names -> SUBSET (Names \ {"d"})]
    /\ \A n \in Names : \A m \in recipeDeps[n] : NameOrder[n] < NameOrder[m]
    /\ primary \in SUBSET {"a", "b", "c"}
    /\ pinned \in SUBSET {"a", "b", "c"}
    /\ binaries = [n \in Names |-> [v \in Versions |-> IF n = "b" THEN {"y"} ELSE {}]]
    /\ \E linked \in BOOLEAN :
          binLink = [e \in Exes |->
                       IF e = "y" /\ linked /\ optLink["b"] # None THEN "b" ELSE None]
    /\ cellarFiles = kegFiles(versions, binaries)
    /\ NoInstall
    /\ kegOnly = {}
    /\ NoRecipe
    /\ NoTextFile
    /\ IdleCommand

NextCleanup == CliCleanup

SpecCleanup == InitCleanup /\ [][NextCleanup]_vars

\* The members an archive is made of: the .brew directory, the recipe and an
\* executable of a 1.0, a symbolic link inside the package, the .brew directory of
\* b 2.0, and six members that TarPackage.filter turns down.
MaxEntries == 3

TarEntries ==
    {Entry(<<"a", "1.0", ".brew">>, "dir"),
     Entry(rubyPath("a", "1.0"), "reg"),
     Entry(<<"a", "1.0", "bin", "x">>, "reg"),
     LinkEntry(<<"a", "1.0", "cur">>, "sym", <<"bin", "x">>),
     Entry(<<"b", "2.0", ".brew">>, "dir"),
     Entry(<<"..", "evil">>, "reg"),
     [Entry(<<"etc", "passwd">>, "reg") EXCEPT !.abs = TRUE],
     Entry(<<"a", "1.0", "dev">>, "chr"),
     LinkEntry(<<"a", "1.0", "up">>, "sym", <<"..", "..", "..", "etc">>),
     [LinkEntry(<<"a", "1.0", "abs">>, "sym", <<"etc">>) EXCEPT !.linkabs = TRUE],
     LinkEntry(<<"a", "1.0", "hard">>, "lnk", <<"..", "evil">>)}

\* Package b is installed with version 1.0 and active; a is not installed,
\* or has version 1.0 (which the archive writes over) active or not.  The
\* archive file.tar.gz is any list of members, the log level any.
InitTar ==
    /\ \E aInstalled \in BOOLEAN, aActive \in BOOLEAN :
          /\ aActive => aInstalled
          /\ versions = [n \in Names |->
                            IF n = "b" \/ (n = "a" /\ aInstalled) THEN {"1.0"} ELSE {}]
          /\ optLink = [n \in Names |->
                           IF n = "b" \/ (n = "a" /\ aActive) THEN "1.0" ELSE None]
    /\ recipeDeps = [n \in Names |-> {}]
    /\ primary = {"b"}
    /\ pinned = {}
    /\ binaries = [n \in Names |-> [v \in Versions |-> {}]]
    /\ cellarFiles = kegFiles(versions, binaries)
    /\ binLink = [e \in Exes |-> None]
    /\ remote = [n \in Names |-> Manifest("1.0", <<>>)]
    /\ tarFile \in UNION {[1..n -> TarEntries] : n \in 0..MaxEntries}
    /\ logLevel \in LogLevels
    /\ kegOnly = {}
    /\ NoRecipe
    /\ NoTextFile
    /\ IdleCommand

CliInstallTar == CliInstall({TarName})

NextTar ==
    \/ CliInstallTar
    \/ InstallStep
    \/ PostInstall
    \/ InstallDone

SpecTar == InitTar /\ [][NextTar]_vars

\* The lists of dependencies of a manifest: any names in any order
DepLists(n) ==
    {s \in UNION {[1..k -> Names \ {"d"}] : k \in 0..2} :
        /\ \A i, j \in DOMAIN s : i # j => s[i] # s[j]
        /\ \A i \in DOMAIN s : NameOrder[n] < NameOrder[s[i]]}

\* The acyclic dependency graphs, up to renaming
DepGraphs ==
    {[n \in Names |-> IF n = "a" THEN da ELSE IF n = "b" THEN db ELSE <<>>] :
        da \in DepLists("a"), db \in DepLists("b")}

\* Nothing or any of a, b, c is installed (version 1.0, active), b on
\* request or not.  The manifests name version 2.0 and any acyclic
\* dependencies, listed in any order; a manifest may lack the digest and a
\* bottle the .brew directory.
InitInstall ==
    /\ versions \in [Names -> {{}, {"1.0"}}]
    /\ versions["a"] = {} /\ versions["d"] = {}
    /\ optLink = [n \in Names |-> IF versions[n] # {} THEN "1.0" ELSE None]
    /\ recipeDeps = [n \in Names |-> {}]
    /\ primary \in SUBSET ({"b"} \cap infoAll)
    /\ pinned = {}
    /\ binaries = [n \in Names |-> [v \in Versions |-> IF n = "a" THEN {"x"} ELSE {}]]
    /\ binLink = [e \in Exes |-> None]
    /\ cellarFiles = kegFiles(versions, binaries)
    /\ \E deps \in DepGraphs, noDigest \in SUBSET {"c"}, broken \in SUBSET {"b"} :
          /\ remote = [n \in Names |->
                          [version |-> "2.0", dependencies |-> deps[n],
                           digest |-> n \notin noDigest,
                           bottle |-> IF n \in broken THEN "broken" ELSE "ok"]]
    /\ tarFile = <<>>
    /\ logLevel = 2
    /\ kegOnly \in SUBSET {"a"}
    /\ NoRecipe
    /\ NoTextFile
    /\ IdleCommand

CliInstallNames == CliInstall(Names \ {"d"})

NextInstall ==
    \/ CliInstallNames
    \/ InstallStep
    \/ PostInstall
    \/ InstallDone

SpecInstall == InitInstall /\ [][NextInstall]_vars

\* Package a is installed with version 1.0 and not linked, b is not
\* installed; a has executable x and b has y.  The recipes of any of the two
\* say keg_only.  The manifests name version 2.0, and a depends on b.  The
\* log level is the default or that of -qq, which silences warnings.
InitKeg ==
    /\ versions = [n \in Names |-> IF n = "a" THEN {"1.0"} ELSE {}]
    /\ optLink = [n \in Names |-> None]
    /\ recipeDeps = [n \in Names |-> {}]
    /\ primary = {"a"}
    /\ pinned = {}
    /\ binaries = [n \in Names |-> [v \in Versions |->
                      IF n = "a" THEN {"x"} ELSE IF n = "b" THEN {"y"} ELSE {}]]
    /\ binLink = [e \in Exes |-> None]
    /\ cellarFiles = kegFiles(versions, binaries)
    /\ remote = [n \in Names |-> Manifest("2.0", IF n = "a" THEN <<"b">> ELSE <<>>)]
    /\ tarFile = <<>>
    /\ logLevel \in {0, 2}
    /\ kegOnly \in SUBSET {"a", "b"}
    /\ NoRecipe
    /\ NoTextFile
    /\ IdleCommand

CliLinkForce == CliLinkWith(BOOLEAN)

CliInstallKeg == CliInstall({"a", "b"})

NextKeg ==
    \/ CliLinkForce
    \/ CliInstallKeg
    \/ InstallStep
    \/ PostInstall
    \/ InstallDone

SpecKeg == InitKeg /\ [][NextKeg]_vars

\* the largest number of calls in a run
MaxCalls == 1

\* a call and what it gave: the set returned, or RecursionError raised
Called(fn, reverse, keys, value) ==
    Append(calls, [fn |-> fn, reverse |-> reverse, keys |-> keys,
                   raised |-> RecursionError \in value,
                   value |-> IF RecursionError \in value THEN {} ELSE value])

\* depTree.forward.direct and depTree.reverse.direct
treeDirect(reverse) ==
    IF reverse THEN inverse(getDependencyTree) ELSE getDependencyTree

\* depTree.forward.getAll(key), depTree.reverse.getAll(key)
GetAllCall ==
    /\ pc = "idle"
    /\ Len(calls) < MaxCalls
    /\ \E reverse \in BOOLEAN, key \in Names :
          calls' = Called("getAll", reverse, {key}, getAll(treeDirect(reverse), key))
    /\ UNCHANGED <<storeVars, cmdVars, uninstallVars, linkVars, installVars, recipeVars, loopVars,
                   textFile>>

\* depTree.forward.getLeaves(key), depTree.reverse.getLeaves(key); getAll
\* raises before the dead ends are picked
GetLeavesCall ==
    /\ pc = "idle"
    /\ Len(calls) < MaxCalls
    /\ \E reverse \in BOOLEAN, key \in Names :
          calls' = Called("getLeaves", reverse, {key},
                          IF RecursionError \in getAll(treeDirect(reverse), key)
                          THEN {RecursionError}
                          ELSE getLeaves(treeDirect(reverse), key))
    /\ UNCHANGED <<storeVars, cmdVars, uninstallVars, linkVars, installVars, recipeVars, loopVars,
                   textFile>>

\* depTree.obsolete(ignore), for any set of installed packages
ObsoleteCall ==
    /\ pc = "idle"
    /\ Len(calls) < MaxCalls
    /\ \E ignore \in SUBSET infoAll :
          calls' = Called("obsolete", FALSE, ignore,
                          IF RecursionError \in unionAll(getDependencyTree, ignore, TRUE)
                          THEN {RecursionError}
                          ELSE obsolete(getDependencyTree, inverse(getDependencyTree),
                                        ignore))
    /\ UNCHANGED <<storeVars, cmdVars, uninstallVars, linkVars, installVars, recipeVars, loopVars,
                   textFile>>

\* Packages a, b and c are installed, d is or is not.  The recipes of a, b
\* and c name any dependencies, installed or not, the package itself and
\* circles included; the recipe of d, when d is installed, names none or b.
InitTree ==
    /\ \E vd \in {{}, {"1.0"}} :
          versions = [n \in Names |-> IF n = "d" THEN vd ELSE {"1.0"}]
    /\ optLink = [n \in Names |-> None]
    /\ \E da \in SUBSET Names, db \in SUBSET Names, dc \in SUBSET Names,
          dd \in {{}, {"b"}} :
          /\ dd # {} => installed("d")
          /\ recipeDeps = [n \in Names |->
                IF n = "a" THEN da ELSE IF n = "b" THEN db ELSE IF n = "c" THEN dc ELSE dd]
    /\ primary = {}
    /\ pinned = {}
    /\ binaries = [n \in Names |-> [v \in Versions |-> {}]]
    /\ binLink = [e \in Exes |-> None]
    /\ cellarFiles = kegFiles(versions, binaries)
    /\ NoInstall
    /\ kegOnly = {}
    /\ NoRecipe
    /\ NoTextFile
    /\ IdleCommand

NextTree ==
    \/ GetAllCall
    \/ GetLeavesCall
    \/ ObsoleteCall

SpecTree == InitTree /\ [][NextTree]_vars

\* the largest number of parts of a text file, and of passes over it
MaxParts == 2
MaxPasses == 2

\* A part is a run of bytes without '@' that ends well before the end of a
\* chunk, 26 bytes before it or 6 bytes before it, and a placeholder or none
TextParts ==
    {<<Fill(n)>> : n \in {10, 4070, 4090}}
    \cup {<<Fill(n), Token(key)>> : n \in {10, 4070, 4090}, key \in DOMAIN KeyLen}

RECURSIVE TextFiles(_)
TextFiles(n) ==
    IF n = 0 THEN {<<>>}
    ELSE TextFiles(n - 1) \cup {f \o part : f \in TextFiles(n - 1), part \in TextParts}

\* Fixer.run(path): Fixer.inreplace(fname) for the text file
InreplaceCall ==
    /\ pc = "idle"
    /\ Len(calls) < MaxPasses
    /\ LET r == inreplace(textFile)
       IN  /\ textFile' = r.file
           /\ calls' = Append(calls, [fn |-> "inreplace", file |-> textFile,
                                      raised |-> r.raised, log |-> r.log])
    /\ UNCHANGED <<storeVars, cmdVars, uninstallVars, linkVars, installVars, recipeVars, loopVars>>

\* Nothing is installed.  The manifests name version 1.0, and a depends on b,
\* whose bottle has a text file of any parts.
InitFixer ==
    /\ versions = [n \in Names |-> {}]
    /\ optLink = [n \in Names |-> None]
    /\ recipeDeps = [n \in Names |-> {}]
    /\ primary = {}
    /\ pinned = {}
    /\ binaries = [n \in Names |-> [v \in Versions |-> {}]]
    /\ binLink = [e \in Exes |-> None]
    /\ cellarFiles = {}
    /\ remote = [n \in Names |-> Manifest("1.0", IF n = "a" THEN <<"b">> ELSE <<>>)]
    /\ tarFile = <<>>
    /\ logLevel = 2
    /\ kegOnly = {}
    /\ NoRecipe
    /\ textFile \in TextFiles(MaxParts)
    /\ IdleCommand

CliInstallFix == CliInstall({"a", "b"})

NextFixer ==
    \/ InreplaceCall
    \/ CliInstallFix
    \/ InstallStep
    \/ PostInstall
    \/ InstallDone

SpecFixer == InitFixer /\ [][NextFixer]_vars

\* Packages a, b, c are installed with version 1.0; a and b are active, c is
\* active or not.  Any are pinned; a is primary, b is or is not.  The
\* manifests name version 1.0 or 2.0 and any acyclic dependencies.
InitUpgrade ==
    /\ versions = [n \in Names |-> IF n = "d" THEN {} ELSE {"1.0"}]
    /\ \E cActive \in BOOLEAN :
          optLink = [n \in Names |->
                       IF n = "d" \/ (n = "c" /\ ~cActive) THEN None ELSE "1.0"]
    /\ recipeDeps = [n \in Names |-> {}]
    /\ primary \in {{"a"}, {"a", "b"}}
    /\ pinned \in SUBSET {"a", "b", "c"}
    /\ binaries = [n \in Names |-> [v \in Versions |-> {}]]
    /\ binLink = [e \in Exes |-> None]
    /\ cellarFiles = kegFiles(versions, binaries)
    /\ \E deps \in DepGraphs, latest \in [Names \ {"d"} -> Versions] :
          /\ remote = [n \in Names |->
                          Manifest(IF n = "d" THEN "1.0" ELSE latest[n], deps[n])]
    /\ tarFile = <<>>
    /\ logLevel = 2
    /\ kegOnly = {}
    /\ NoRecipe
    /\ NoTextFile
    /\ IdleCommand

NextUpgrade ==
    \/ CliUpgrade
    \/ InstallStep
    \/ PostInstall
    \/ InstallDone
    \/ UpgradeCleanup

SpecUpgrade == InitUpgrade /\ [][NextUpgrade]_vars

\* Packages a, its alias b and c have version 1.0 with any executables and
\* are active or not; a bin-link is absent or goes through the opt-link of an
\* active package that has the executable.
InitToggle ==
    /\ versions = [n \in Names |-> IF n = "d" THEN {} ELSE {"1.0"}]
    /\ recipeDeps = [n \in Names |-> {}]
    /\ primary = {"a", "b", "c"}
    /\ pinned = {}
    /\ \E ea \in SUBSET Exes, eb \in SUBSET Exes, ec \in SUBSET Exes :
          binaries = [n \in Names |-> [v \in Versions |->
                        IF v # "1.0" THEN {}
                        ELSE IF n = "a" THEN ea ELSE IF n = "b" THEN eb
                        ELSE IF n = "c" THEN ec ELSE {}]]
    /\ optLink \in [Names -> {"1.0", None}]
    /\ \A n \in Names : optLink[n] # None => optLink[n] \in versions[n]
    /\ binLink \in [Exes -> {None, "a", "b", "c"}]
    /\ \A e \in Exes : binLink[e] # None =>
          /\ optLink[binLink[e]] # None
          /\ e \in binaries[binLink[e]]["1.0"]
    /\ cellarFiles = kegFiles(versions, binaries)
    /\ NoInstall
    /\ kegOnly = {}
    /\ NoRecipe
    /\ NoTextFile
    /\ IdleCommand

NextToggle == CliToggle

SpecToggle == InitToggle /\ [][NextToggle]_vars

\* the longest recipe, and the longest array of target tokens
MaxLines == 4
MaxTargets == 2

\* the targets of a depends_on line: none, a symbol, or an array of symbols
Targets ==
    {[form |-> "none", toks |-> <<>>]}
        \cup {[form |-> "sym", toks |-> <<t>>] : t \in TARGET_SYMBOLS}
        \cup {[form |-> "arr", toks |-> a] :
                  a \in UNION {[1..n -> TARGET_SYMBOLS] : n \in 0..MaxTargets}}

\* the lines of the recipes: the dependency named is a
RecipeLines ==
    {Line("on", f, "", "none", <<>>) : f \in BOOLEAN}
        \cup {Line("end", TRUE, "", "none", <<>>), Line("do", TRUE, "", "none", <<>>)}
        \cup {Line("depends", TRUE, "a", t.form, t.toks) : t \in Targets}

\* RubyParser(path).parse().dependencies
ParseCall ==
    /\ pc = "idle"
    /\ Len(calls) < MaxCalls
    /\ calls' = Called("parse", FALSE, {}, parse(recipe))
    /\ UNCHANGED <<storeVars, cmdVars, uninstallVars, linkVars, installVars, recipeVars, loopVars,
                   textFile>>

\* An empty store, and a recipe of any lines.
InitRuby ==
    /\ versions = [n \in Names |-> {}]
    /\ optLink = [n \in Names |-> None]
    /\ recipeDeps = [n \in Names |-> {}]
    /\ primary = {}
    /\ pinned = {}
    /\ binaries = [n \in Names |-> [v \in Versions |-> {}]]
    /\ binLink = [e \in Exes |-> None]
    /\ cellarFiles = {}
    /\ NoInstall
    /\ kegOnly = {}
    /\ recipe \in UNION {[1..n -> RecipeLines] : n \in 0..MaxLines}
    /\ NoTextFile
    /\ IdleCommand

NextRuby == ParseCall

SpecRuby == InitRuby /\ [][NextRuby]_vars

\* Packages a, b and c are installed with version 1.0, any of them primary;
\* a and b are active, c is active or not.  The recipes name any
\* dependencies, installed or not, the package itself and circles included.
InitDangling ==
    /\ versions = [n \in Names |-> IF n = "d" THEN {} ELSE {"1.0"}]
    /\ \E cActive \in BOOLEAN :
          optLink = [n \in Names |->
                       IF n = "d" \/ (n = "c" /\ ~cActive) THEN None ELSE "1.0"]
    /\ \E da \in SUBSET Names, db \in SUBSET Names, dc \in SUBSET Names :
          recipeDeps = [n \in Names |->
              IF n = "a" THEN da ELSE IF n = "b" THEN db ELSE IF n = "c" THEN dc ELSE {}]
    /\ primary \in SUBSET {"a", "b", "c"}
    /\ pinned = {}
    /\ binaries = [n \in Names |-> [v \in Versions |-> {}]]
    /\ binLink = [e \in Exes |-> None]
    /\ cellarFiles = kegFiles(versions, binaries)
    /\ NoInstall
    /\ kegOnly = {}
    /\ NoRecipe
    /\ NoTextFile
    /\ IdleCommand

NextDangling ==
    \/ CleanupBegin
    \/ DanglingStep
    \/ CleanupEnd

SpecDangling == InitDangling /\ [][NextDangling]_vars

\* cli_cleanup runs on: no step of it waits for anything
SpecDanglingFair == SpecDangling /\ WF_vars(NextDangling)

(***************************************************************************)
(* The uninstall plan                                                      *)
(***************************************************************************)
delete == Range(deletePkgs)
removed == Range(uninstallQueue)
skipped == DOMAIN skips

\* C1: the plan collect computes without --no-dependencies has removed and
\* skipped disjoint, and every package of the delete list (as collect keeps
\* it: the installed ones) that is not skipped is removed.
PlanPartition ==
    (args # <<>> /\ ~args.no_dependencies) =>
        /\ removed \cap skipped = {}
        /\ (delete \ skipped) \subseteq removed

\* a plan in which the cascade moved a package of the delete list to skipped
PlanPartitionWitness ==
    /\ pc = "collected"
    /\ ~args.no_dependencies
    /\ delete \cap skipped # {}
    /\ delete \cap removed # {}
    /\ skipped \ delete # {}

\* C2: a package with the .primary marker is queued for removal only if it
\* is in the delete list, with and without --ignore and --no-dependencies.
PrimaryOnlyExplicit ==
    \A p \in removed : isPrimary(p) => p \in delete

\* a primary dependency of a deleted package, all of whose dependents are
\* removed or ignored, is skipped and its own dependency with it
PrimaryOnlyExplicitWitness ==
    /\ pc = "collected"
    /\ ~args.no_dependencies
    /\ args.ignore # {}
    /\ \E p \in skipped \ delete :
          /\ isPrimary(p)
          /\ Get(inverse(getDependencyTree), p) \subseteq removed \cup args.ignore
          /\ recipeDeps[p] \cap skipped # {}

(***************************************************************************)
(* Uninstall                                                               *)
(***************************************************************************)
\* C6: once the directory tree of a package of the queue is deleted, the
\* opt-link and the bin-links each package of the queue had are all gone.
UnlinkBeforeRemove ==
    (pc \in {"uninstall", "done"} /\ \E p \in removed : ~installed(p)) =>
        \A path \in linksBefore : ~linkExists(links, path)

\* between two removals, with an opt-link and a bin-link among the links
UnlinkBeforeRemoveWitness ==
    /\ pc = "uninstall"
    /\ ~dryRun
    /\ \E p, q \in removed : ~installed(p) /\ installed(q)
    /\ \E e \in Exes, p \in Names : {<<"bin", e>>, <<"opt", p>>} \subseteq linksBefore

\* the packages the plan sets out to remove, and the ones --ignore hides
removalSet ==
    IF args.no_dependencies THEN delete
    ELSE unionAll(getDependencyTree, delete, TRUE)

liveDependents(pkg) ==
    Get(inverse(getDependencyTree), pkg)
        \ (removalSet \cup obsolete(getDependencyTree, inverse(getDependencyTree), args.ignore))

hasLiveDependent ==
    /\ args # <<>>
    /\ missing(getDependencyTree, args.ignore) = {}
    /\ \E pkg \in delete : liveDependents(pkg) # {}

\* C8: when a package of the delete list has a dependent that is neither in
\* the removal set nor actively ignored, uninstall without --force ends with
\* exit code 1 and the store as it was; with --force it goes on.
HardErrorUnlessForce ==
    [][/\ (pc \in {"idle", "collected"} => UNCHANGED storeVars)
       /\ (pc = "idle" /\ hasLiveDependent') => pc' = "collected"
       /\ (pc = "collected" /\ hasLiveDependent) =>
             IF force' THEN pc' = "confirm"
             ELSE pc' = "done" /\ exitCode' = 1]_vars

(***************************************************************************)
(* Cleanup                                                                 *)
(***************************************************************************)
\* C3 as stated: cleanup, with package arguments or with none, removes no
\* version directory and no package directory of a package that is pinned.
CleanupKeepsPinned ==
    [][\A p \in pinned : allVersions(p)' = allVersions(p) /\ p \in pinned']_vars

(***************************************************************************)
(* Links                                                                   *)
(***************************************************************************)
\* the package has no link: no opt/<pkg> and no bin-link through opt/<pkg>
noLinks(ls, pkg) == ls.opt[pkg] = None /\ \A e \in Exes : ls.bin[e] # pkg

\* the last two runs were link (opt and bin) of a package without links and
\* unlink (opt and bin) of the same package
linkedThenUnlinked(pkg) ==
    /\ Len(hist) >= 2
    /\ LET l == hist[Len(hist) - 1]
           u == hist[Len(hist)]
       IN  /\ l.cmd = "link" /\ l.pkg = pkg /\ l.opt /\ l.bin /\ l.done
           /\ u.cmd = "unlink" /\ u.pkg = pkg /\ u.opt /\ u.bin /\ u.done
           /\ noLinks(l.before, pkg)

\* C9: after link(v) with opt and bin-links on a package without links and
\* then unlink() with opt and bin, opt/<pkg> is absent, no bin-link goes to
\* the package, every bin-link that link made is gone, and every bin path
\* that link skipped because it existed holds what it held.
LinkUnlinkRestores ==
    \A pkg \in Names : linkedThenUnlinked(pkg) =>
        LET l == hist[Len(hist) - 1]
        IN  /\ optLink[pkg] = None
            /\ \A e \in Exes : binLink[e] # pkg
            /\ \A e \in gatherBinaries(pkg, l.version) :
                  IF l.before.bin[e] = None THEN binLink[e] = None
                  ELSE binLink[e] = l.before.bin[e]

\* link made one bin-link and skipped another that a second package holds
LinkUnlinkRestoresWitness ==
    \E pkg \in Names :
        /\ linkedThenUnlinked(pkg)
        /\ LET l == hist[Len(hist) - 1]
           IN  /\ \E e \in gatherBinaries(pkg, l.version) : l.before.bin[e] = None
               /\ \E e \in gatherBinaries(pkg, l.version) :
                     l.before.bin[e] \notin {None, pkg} /\ binLink[e] = l.before.bin[e]

\* the last three runs were switch(a) with a active, switch(b), switch(a)
switchedThrice(pkg, a, b) ==
    /\ Len(hist) >= 3
    /\ a # b
    /\ LET h1 == hist[Len(hist) - 2]
           h2 == hist[Len(hist) - 1]
           h3 == hist[Len(hist)]
       IN  /\ h1.cmd = "switch" /\ h1.pkg = pkg /\ h1.version = a /\ ~h1.done
           /\ h1.before.opt[pkg] = a
           /\ h2.cmd = "switch" /\ h2.pkg = pkg /\ h2.version = b /\ h2.done
           /\ h3.cmd = "switch" /\ h3.pkg = pkg /\ h3.version = a /\ h3.done

\* C10 as stated: switch(a); switch(b); switch(a) restores the active version
\* and whether the package has bin-links, whatever the versions contain.
SwitchRoundTrip ==
    \A pkg \in Names, a \in Versions, b \in Versions : switchedThrice(pkg, a, b) =>
        /\ activeVersion(pkg) = a
        /\ hasBinLinks(pkg) <=> (binLinks(hist[Len(hist) - 2].before, pkg) # {})

\* has bin-links before the three runs, and before the third
hadBinLinks(pkg) == binLinks(hist[Len(hist) - 2].before, pkg) # {}
keptBinLinks(pkg) == binLinks(hist[Len(hist)].before, pkg) # {}

\* C10 amended: switch(a); switch(b); switch(a) restores the active version;
\* the package has bin-links afterwards iff it had a bin-link while b was
\* active and a contains an executable whose bin path no other package
\* holds; it never has bin-links afterwards that it had not before.
SwitchRoundTripAmended ==
    \A pkg \in Names, a \in Versions, b \in Versions : switchedThrice(pkg, a, b) =>
        /\ activeVersion(pkg) = a
        /\ hasBinLinks(pkg) <=>
              /\ keptBinLinks(pkg)
              /\ \E e \in gatherBinaries(pkg, a) :
                    hist[Len(hist)].before.bin[e] \in {None, pkg}
        /\ hasBinLinks(pkg) => hadBinLinks(pkg)

\* the bin-links of a are back after version b had others
SwitchRoundTripAmendedWitness ==
    \E pkg \in Names, a \in Versions, b \in Versions :
        /\ switchedThrice(pkg, a, b)
        /\ hadBinLinks(pkg)
        /\ hasBinLinks(pkg)
        /\ gatherBinaries(pkg, a) # gatherBinaries(pkg, b)

(***************************************************************************)
(* Upgrade and pinned packages                                             *)
(***************************************************************************)
\* the run is `upgrade` without package names and without --pinned
upgradedByDefault == pc # "idle" /\ args.packages = <<>> /\ ~args.pinned

\* C4, for the upgrade that names no package and has no --pinned: a package
\* whose .pinned file is present gets no new version, keeps its active
\* version and keeps all of its installed versions.
UpgradeSkipsPinned ==
    upgradedByDefault =>
        \A p \in before.pinned :
            /\ allVersions(p) = before.versions[p]
            /\ activeVersion(p) = before.optLink[p]

(***************************************************************************)
(* The order of installation                                               *)
(***************************************************************************)
\* what the manifests say: the dependencies of each package
manifestDeps == [n \in Names |-> Range(info(n).dependencies)]

queuePlace(tar) == CHOOSE k \in DOMAIN iq.installQueue : iq.installQueue[k] = tar

tarInstalled == pc = "done" /\ iq.installQueue = <<TarFile>>

accepted == SelectSeq(tarFile, LAMBDA x : filter(x, CELLAR).ok)
rejected == SelectSeq(tarFile, LAMBDA x : ~filter(x, CELLAR).ok)
hasBrewDir == \E i \in DOMAIN accepted : isBrewDir(accepted[i])

cellarUnchanged ==
    /\ cellarFiles = before.cellarFiles
    /\ versions = before.versions
    /\ binaries = before.binaries
    /\ primary = before.primary

inSummary(lvl, msg, entry) ==
    \E i \in DOMAIN summary :
        summary[i] = [lvl |-> lvl, msg |-> msg, entry |-> entry]

BinLinksThroughOpt ==
    \A e \in Exes : binLink[e] # None => optLink[binLink[e]] # None

optLinkMade(pkg) == optLink'[pkg] # None /\ optLink'[pkg] # optLink[pkg]
binLinkMade(pkg) == \E e \in Exes : binLink'[e] = pkg /\ binLink[e] # pkg

UpgradeActivatesNew ==
    (pc = "done" /\ iq.isUpgrade /\ ~iq.keep /\ ~iq.dryRun) =>
        \A i \in DOMAIN iq.finished :
            LET pkg == iq.finished[i][1]
                new == iq.finished[i][2]
            IN  (pkg \notin before.pinned /\ before.optLink[pkg] # None) =>
                    /\ activeVersion(pkg) = new
                    /\ allVersions(pkg) = {new}

(***************************************************************************)
(* The dependency graph                                                    *)
(***************************************************************************)
\* the calls of a function that returned
returned(fn) == {i \in DOMAIN calls : calls[i].fn = fn /\ ~calls[i].raised}

\* the key of a call with one key
keyOf(call) == CHOOSE k \in call.keys : TRUE

\* C17: whenever getAll(k) returns, in the forward or in the reverse graph,
\* what it returns does not contain k.  (On a graph with a circle through
\* what k leads to, getAll(k) raises RecursionError and returns nothing.)
GetAllWithoutKey ==
    \A i \in returned("getAll") : keyOf(calls[i]) \notin calls[i].value

\* getAll returned two packages or more, one of them through another, in the
\* forward graph or in the reverse graph
GetAllWithoutKeyWitness ==
    \E i \in returned("getAll") :
        LET direct == treeDirect(calls[i].reverse)
        IN  /\ calls[i].value \ Get(direct, keyOf(calls[i])) # {}
            /\ Cardinality(calls[i].value) >= 2

\* C18: what getLeaves(k) returns is a subset of what getAll(k) returns, and
\* each of its elements has an empty direct set or none.
LeavesAreDeadEnds ==
    \A i \in returned("getLeaves") :
        LET direct == treeDirect(calls[i].reverse)
        IN  /\ calls[i].value \subseteq getAll(direct, keyOf(calls[i]))
            /\ \A x \in calls[i].value : x \notin DOMAIN direct \/ direct[x] = {}

\* getLeaves left out a package that getAll returns, and returned one
LeavesAreDeadEndsWitness ==
    \E i \in returned("getLeaves") :
        /\ calls[i].value # {}
        /\ getAll(treeDirect(calls[i].reverse), keyOf(calls[i])) \ calls[i].value # {}

\* C19: for a set S of installed packages, what obsolete(S) returns contains
\* every member of S, also when members of S depend on one another.
ObsoleteHasInput ==
    \A i \in returned("obsolete") :
        calls[i].keys \subseteq infoAll => calls[i].keys \subseteq calls[i].value

\* a member of S depends on another member, which a package outside of all
\* that S leads to depends on too, and obsolete(S) returned more than S
ObsoleteHasInputWitness ==
    \E i \in returned("obsolete") :
        LET S == calls[i].keys
            allIgnored == unionAll(getDependencyTree, S, TRUE)
        IN  /\ \E x \in S, y \in S, z \in infoAll \ allIgnored :
                  x # y /\ y \in recipeDeps[x] /\ y \in recipeDeps[z]
            /\ calls[i].value \ S # {}

(***************************************************************************)
(* Placeholders                                                            *)
(***************************************************************************)
\* the keys of the placeholders of a file
tokens(file) == {file[i].key : i \in {j \in DOMAIN file : file[j].kind = "token"}}

\* the file with each placeholder of a known key replaced by its value
replaced(file) ==
    [i \in DOMAIN file |->
        IF file[i].kind = "token" /\ file[i].key \in DOMAIN INREPLACE_DICT
        THEN Value(file[i].key) ELSE file[i]]

\* C16 as stated: when the text file of the version that is installed has a
\* placeholder of an unknown key, the install goes on with the queue, the
\* placeholder is reported in the summary and stays in the file, and the
\* placeholders of known keys are replaced.
UnknownTokenReported ==
    [][(/\ pc = "post-install"
        /\ iq.bundle[1] = TextPackage
        /\ tokens(textFile) \ DOMAIN INREPLACE_DICT # {}) =>
            /\ pc' = "install"
            /\ exitCode' = 0
            /\ \E i \in DOMAIN summary' : summary'[i].msg = "missed placeholder"
            /\ textFile' = replaced(textFile)]_vars

\* C20 as stated: after a pass over a text file no placeholder of a known
\* key is left in it, wherever the placeholders are, and a second pass leaves
\* the file as the first pass left it.
PlaceholderPassIdempotent ==
    \A i \in DOMAIN calls :
        (calls[i].fn = "inreplace" /\ ~calls[i].raised) =>
            LET out == IF i = Len(calls) THEN textFile ELSE calls[i + 1].file
            IN  /\ tokens(out) \cap DOMAIN INREPLACE_DICT = {}
                /\ i > 1 => out = calls[i].file

\* every package that leads to one of `seen` through dependents, `seen`
\* included: the upward paths in the reverse graph
RECURSIVE upward(_, _)
upward(reverse, seen) ==
    LET more == seen \cup UNION {Get(reverse, x) : x \in seen}
    IN  IF more = seen THEN seen ELSE upward(reverse, more)

\* C21: obsolete(S) returns exactly the packages of S and of all that S leads
\* to whose upward paths in the reverse graph all stay inside S and all that S
\* leads to, and the members of S: a package that an installed package outside
\* leads to through any chain of dependents is not returned, unless it is a
\* member of S.
ObsoleteUpwardClosed ==
    \A i \in returned("obsolete") :
        LET S == calls[i].keys
            allIgnored == unionAll(getDependencyTree, S, TRUE)
            reverse == inverse(getDependencyTree)
        IN  calls[i].value =
                {n \in allIgnored : n \in S \/ upward(reverse, {n}) \subseteq allIgnored}

\* C22: getAll(k) returns for every graph, circles and packages that name
\* themselves included, and what it returns is all that k leads to.
GetAllTerminates ==
    \A i \in DOMAIN calls :
        calls[i].fn = "getAll" =>
            LET direct == treeDirect(calls[i].reverse)
            IN  /\ ~calls[i].raised
                /\ calls[i].value = upward(direct, Get(direct, keyOf(calls[i])))

\* the links after the i-th noted run
linksAfter(i) == IF i = Len(hist) THEN links ELSE hist[i + 1].before

\* C23: a switch either ends with the version it was given active, or leaves
\* the opt-links and the bin-links as they were; a switch to a version that is
\* not installed does not leave the package without an active version.
SwitchAtomic ==
    \A i \in DOMAIN hist :
        hist[i].cmd = "switch" =>
            \/ linksAfter(i).opt[hist[i].pkg] = hist[i].version
            \/ linksAfter(i) = hist[i].before

(***************************************************************************)
(* Toggle                                                                  *)
(***************************************************************************)
\* the runs of toggle that reached the links
toggles == {i \in DOMAIN hist : hist[i].cmd = "toggle"}

\* the bin paths that packages of the family of pkg held before the i-th run
heldByFamily(i) == UNION {binLinks(hist[i].before, x) : x \in family(hist[i].pkg)}

\* the bin-links the i-th run created
created(i) ==
    {e \in Exes : linksAfter(i).bin[e] # None /\ linksAfter(i).bin[e] # hist[i].before.bin[e]}

\* C24 as stated: when any package of the family (the package or an alias)
\* holds bin-links, toggle drops them and creates none; it creates bin-links
\* only when no package of the family holds any.
ToggleOnlyDropsFamily ==
    \A i \in toggles :
        heldByFamily(i) # {} =>
            /\ created(i) = {}
            /\ \A e \in heldByFamily(i) : linksAfter(i).bin[e] = None

\* C24 amended: toggle leaves the opt-links alone and drops the bin-links of
\* every installed package of the family.  When the package itself held a
\* bin-link it creates none; otherwise, an alias holding bin-links or not, it
\* creates one for each executable of the package's active version whose bin
\* path is free once the family's are dropped.
ToggleSwitchesFamily ==
    \A i \in toggles :
        LET pkg == hist[i].pkg
            was == hist[i].before
            now == linksAfter(i)
            exes == binaries[pkg][was.opt[pkg]]
        IN  /\ now.opt = was.opt
            /\ \A e \in Exes :
                  now.bin[e] =
                      IF binLinks(was, pkg) # {}
                      THEN (IF e \in heldByFamily(i) THEN None ELSE was.bin[e])
                      ELSE IF e \in heldByFamily(i) \/ was.bin[e] = None
                      THEN (IF e \in exes THEN pkg ELSE None)
                      ELSE was.bin[e]

\* an alias held a bin-link, the package held none, and toggle gave the
\* package a bin-link on the path the alias held and on another
ToggleSwitchesFamilyWitness ==
    \E i \in toggles :
        LET pkg == hist[i].pkg
        IN  /\ binLinks(hist[i].before, pkg) = {}
            /\ \E e \in heldByFamily(i) : linksAfter(i).bin[e] = pkg
            /\ \E e \in Exes \ heldByFamily(i) : e \in created(i)

(***************************************************************************)
(* The digest file                                                         *)
(***************************************************************************)
\* C25: the digest file of a version the command has installed is written
\* only after the post-install fixups of the version have completed: a
\* version whose fixup raised has no digest file.
DigestAfterFixups ==
    \A pkg \in Names, v \in Versions :
        (digestPath(pkg, v) \in cellarFiles /\ digestPath(pkg, v) \notin before.cellarFiles)
            => <<pkg, v>> \in Range(iq.finished)

(***************************************************************************)
(* The .primary marker                                                     *)
(***************************************************************************)
\* the packages `install` (not an upgrade) has installed, and those of them
\* it was asked for
installedNow == IF iq.isUpgrade THEN {} ELSE {f[1] : f \in Range(iq.finished)}
requested == installedNow \cap iq.primary

\* C26 as stated: after setPrimary(true) the package is primary and after
\* setPrimary(false) it is not: a package installed as a dependency only is
\* not primary afterwards, whether it was installed on request before or not.
SetPrimaryRemoves ==
    \A pkg \in installedNow : isPrimary(pkg) <=> pkg \in requested

\* C26 amended: setPrimary(true) makes the package primary; setPrimary(false)
\* creates `.secondary` and leaves `.primary` as it is, so that a package
\* installed as a dependency is primary afterwards iff it was before.
SetPrimarySticky ==
    \A pkg \in installedNow :
        /\ isPrimary(pkg) <=> (pkg \in requested \/ pkg \in before.primary)
        /\ pkg \notin requested => secondaryPath(pkg) \in cellarFiles

\* a package that was primary got a new version as a dependency of a package
\* asked for, and is primary still
SetPrimaryStickyWitness ==
    /\ pc = "done"
    /\ \E pkg \in installedNow \ requested, top \in requested :
          /\ pkg \in before.primary
          /\ pkg \in Range(remote[top].dependencies)
          /\ isPrimary(pkg)
          /\ isPrimary(top)

(***************************************************************************)
(* Recipes                                                                 *)
(***************************************************************************)
\* the blocks that enclose what follows the first n lines, outermost first:
\* the flag of an `on_<block> ... do`, TRUE for another block; an `end`
\* closes the innermost block, and closes nothing when no block is open
RECURSIVE lexical(_, _)
lexical(lines, n) ==
    IF n = 0 THEN <<>>
    ELSE LET st == lexical(lines, n - 1)
         IN  IF lines[n].kind = "on" THEN Append(st, lines[n].flag)
             ELSE IF lines[n].kind = "do" THEN Append(st, TRUE)
             ELSE IF lines[n].kind = "end" /\ st # <<>> THEN SubSeq(st, 1, Len(st) - 1)
             ELSE st

\* the depends_on lines all of whose enclosing on-blocks match the machine
activeLines ==
    {k \in DOMAIN recipe : recipe[k].kind = "depends" /\ all(lexical(recipe, k - 1))}

\* C27: a name is among the dependencies only if a depends_on line names it
\* all of whose enclosing `on_<block> ... do` scopes match the machine,
\* whatever other lines, `end` lines of other blocks included, are inside the
\* blocks; an `end` that closes no block pops nothing.
NestedNeverReported ==
    \A i \in returned("parse") :
        \A n \in calls[i].value : \E k \in activeLines : recipe[k].name = n


\* the recipe has on-blocks only: the scopes the parser keeps are the blocks
\* that enclose a line
onBlocksOnly == \A k \in DOMAIN recipe : recipe[k].kind # "do"

\* none of the target tokens of the line is :build, :test or :optional
required(line) ==
    \A j \in DOMAIN unify_tok(line) :
        unify_tok(line)[j] \notin {":build", ":test", ":optional"}

\* C28: the name of an active depends_on line without if-clause is among the
\* dependencies iff none of the tokens of its target, a symbol or an array,
\* is :build, :test or :optional; with :recommended or no target it is.  (One
\* name on several active lines is reported iff one of them requires it.)
TargetsExclude ==
    \A i \in returned("parse") :
        onBlocksOnly =>
            \A n \in {recipe[k].name : k \in activeLines} :
                n \in calls[i].value <=>
                    \E k \in activeLines : recipe[k].name = n /\ required(recipe[k])

\* an active line inside a matching on-block has an array target whose first
\* token is :recommended and whose second token excludes the dependency, and
\* the name is not reported
TargetsExcludeWitness ==
    \E i \in returned("parse") :
        /\ onBlocksOnly
        /\ \E k \in activeLines :
              /\ lexical(recipe, k - 1) # <<>>
              /\ recipe[k].form = "arr"
              /\ Len(recipe[k].toks) = 2
              /\ recipe[k].toks[1] = ":recommended"
              /\ recipe[k].toks[2] \in IGNORED_TARGETS
        /\ calls[i].value = {}

(***************************************************************************)
(* What uninstall leaves behind                                            *)
(***************************************************************************)
\* collect has made a plan without --ignore and without --no-dependencies,
\* and the plan has no warnings
cleanPlan ==
    /\ pc \in {"collected", "done"}
    /\ exitCode = 0
    /\ args # <<>>
    /\ args.ignore = {}
    /\ ~args.no_dependencies
    /\ DOMAIN warnings = {}

\* C29: on an acyclic dependency graph, with an empty ignore list and
\* no_dependencies off, when the plan has no warnings no installed package
\* outside the removal set has a direct dependency inside the removal set.
NoBrokenDependents ==
    cleanPlan => \A x \in infoAll \ removed : recipeDeps[x] \cap removed = {}

\* the cascade has moved a package to skipped: a skipped package that is not
\* primary has all its dependents among what the delete list leads to, one of
\* them skipped for a dependent outside, while another package is removed
NoBrokenDependentsWitness ==
    /\ cleanPlan
    /\ removed # {}
    /\ \E s \in skipped \ primary, t \in skipped :
          LET reverse == inverse(getDependencyTree)
              rawUninstall == unionAll(getDependencyTree, delete, TRUE)
          IN  /\ Get(reverse, s) \subseteq rawUninstall
              /\ t \in Get(reverse, s)
              /\ Get(reverse, t) \ rawUninstall # {}


(***************************************************************************)
(* cli_cleanup, the loop that removes dangling dependencies                *)
(***************************************************************************)

\* the packages File.remove is called on in this turn of the loop
removedNow == loop.depsOnly \ loop'.depsOnly

\* C30: the loop of `cleanup` that removes dangling dependencies comes to an
\* end for every store, circles of dependencies included, and each package it
\* deletes is not primary and is, at the moment it is deleted, a dependency
\* of no package which is still installed.
DanglingLoop ==
    /\ [][(pc = "dangling" /\ pc' = "dangling" /\ ~dryRun) =>
            \A p \in removedNow :
                /\ p \notin primary
                /\ \A q \in Names : versions'[q] # {} => p \notin recipeDeps[q]]_vars
    /\ <>(pc = "done")

\* the loop has ended after two turns: of the three installed packages b
\* went first and then a, which b depended on, while c, which is not primary
\* either, stays because it names itself as a dependency
DanglingLoopWitness ==
    /\ pc = "done"
    /\ ~dryRun
    /\ "a" \in recipeDeps["b"]
    /\ versions["a"] = {} /\ versions["b"] = {}
    /\ "c" \notin primary /\ versions["c"] # {}
    /\ "c" \in recipeDeps["c"]

=============================================================================
